---- MODULE Spec2Model ----
(***************************************************************************)
(* Model of the Earley front end of beans: EarleyGrammar::new, the         *)
(* recogniser (EarleyParser::recognise), the forest builder (to_forest)    *)
(* and the driver EarleyParser::parse, over a lexed stream.                *)
(*                                                                         *)
(* Conventions.  RuleId, NonTerminalId, TerminalId and set indices are     *)
(* 0-based as in the source; TLA+ sequences are 1-based, so rule r is      *)
(* grammar.rules[r + 1] (RuleAt(r)) and S[k] is sets[k + 1] (SetAt(k)).    *)
(***************************************************************************)
EXTENDS Integers, Sequences, FiniteSets, TLC

VARIABLES
    grammar,        \* the EarleyGrammar owned by the EarleyParser
    lexer,          \* the LexerGrammar behind the lexed stream
    source,         \* the source buffer, one lexeme (terminal id) per cell
    offset,         \* LexedStream: current offset into source
    last_location,  \* LexedStream: location of the last returned token
    sets,           \* recognise: the chart, Vec<StateSet>
    raw_input,      \* recognise: the tokens consumed so far
    pos,            \* recognise: index of the set being filled
    scans,          \* recognise: HashMap<TerminalId, Vec<EarleyItem>>
    allowed,        \* the allowed set handed to the last LexedStream::next
    forest,         \* parse: the forest built by to_forest
    tree,           \* parse: the AST chosen by select_ast
    typed_ast,      \* the terminal declarations given to build_from_ast
    result,         \* outcome of recognise / parse
    pc              \* position of the driver

vars == <<grammar, lexer, source, offset, last_location, sets, raw_input,
          pos, scans, allowed, forest, tree, typed_ast, result, pc>>

-----------------------------------------------------------------------------
(* Bounds of the model *)

MaxRules == 3
MaxInputLen == 3
MaxTerminals == 2

-----------------------------------------------------------------------------
(* Generic helpers *)

Range(s) == {s[i] : i \in 1..Len(s)}

RECURSIVE SetToSeq(_)
\* the elements of a finite set of integers, in increasing order
SetToSeq(S) ==
    IF S = {} THEN <<>>
    ELSE LET m == CHOOSE x \in S : \A y \in S : x <= y
         IN  <<m>> \o SetToSeq(S \ {m})

RECURSIVE SeqsUpTo(_, _)
\* all sequences over S of length at most n
SeqsUpTo(S, n) ==
    IF n = 0 THEN {<<>>}
    ELSE LET shorter == SeqsUpTo(S, n - 1)
         IN  shorter \cup {Append(s, x) : s \in shorter, x \in S}

Last(s) == s[Len(s)]

-----------------------------------------------------------------------------
(* Rule elements and rules (grammarparser::RuleElement, Rule) *)

\* grammarparser::Attribute
AttributeNone == [kind |-> "None"]
AttributeNamed(attr) == [kind |-> "Named", attr |-> attr]
AttributeIndexed(idx) == [kind |-> "Indexed", idx |-> idx]

\* an element without key; key is <<>> (None) or <<k>>
T(t) == [element_type |-> "Terminal", id |-> t,
         attribute |-> AttributeNone, key |-> <<>>]
N(n) == [element_type |-> "NonTerminal", id |-> n,
         attribute |-> AttributeNone, key |-> <<>>]

\* element.attribute@key
Keyed(element, attribute, key) ==
    [element EXCEPT !.attribute = attribute, !.key = <<key>>]

\* a rule with an empty proxy
Rule(lhs, elements, left_associative) ==
    [id |-> lhs, elements |-> elements, proxy |-> <<>>,
     left_associative |-> left_associative]

\* the values of a proxy: a literal, a reference to an attribute produced by
\* the elements, a nested node constructor
ProxyLiteral(value) == [kind |-> "Literal", value |-> value]
ProxyReference(key) == [kind |-> "Reference", key |-> key]
ProxyNode(nonterminal, proxy) ==
    [kind |-> "Node", nonterminal |-> nonterminal, proxy |-> proxy]

\* one (key, ProxyValue) entry of Rule::proxy
ProxyEntry(key, wanted) == [key |-> key, wanted |-> wanted]

WithProxy(rule, proxy) == [rule EXCEPT !.proxy = proxy]

-----------------------------------------------------------------------------
(* EarleyGrammar::new *)

\* nvec![Vec::new(); nb_non_terminals]
EmptyPerNonTerminal(nb_non_terminals) ==
    [n \in 0..(nb_non_terminals - 1) |-> <<>>]

RECURSIVE IsInOfElements(_, _, _, _)
\* for element in rule.elements: is_in[rhs_id].push(rule_id)
IsInOfElements(elements, j, rule_id, is_in) ==
    IF j > Len(elements) THEN is_in
    ELSE IF elements[j].element_type = "NonTerminal"
         THEN IsInOfElements(elements, j + 1, rule_id,
                  [is_in EXCEPT ![elements[j].id] = Append(@, rule_id)])
         ELSE IsInOfElements(elements, j + 1, rule_id, is_in)

RECURSIVE NewScanRules(_, _, _)
\* the first loop of new: rules_of, the empty rules seed nullables and the
\* queue, is_in records where each non-terminal occurs
NewScanRules(rules, i, st) ==
    IF i > Len(rules) THEN st
    ELSE LET rule_id == i - 1
             rule == rules[i]
             lhs_id == rule.id
             empty == rule.elements = <<>>
         IN  NewScanRules(rules, i + 1,
               [rules_of  |-> [st.rules_of EXCEPT ![lhs_id] = Append(@, rule_id)],
                nullables |-> IF empty THEN st.nullables \cup {lhs_id}
                              ELSE st.nullables,
                \* push_front
                stack     |-> IF empty THEN <<lhs_id>> \o st.stack ELSE st.stack,
                is_in     |-> IsInOfElements(rule.elements, 1, rule_id, st.is_in)])

\* any() in place of all()
SomeElementNullable(rule, nullables) ==
    \E j \in 1..Len(rule.elements) :
        /\ rule.elements[j].element_type = "NonTerminal"
        /\ rule.elements[j].id \in nullables

\* rules[rule_id].elements.iter().all(|e| matches NonTerminal(id) if
\* nullables.contains(id))
AllElementsNullable(rule, nullables) ==
    \A j \in 1..Len(rule.elements) :
        /\ rule.elements[j].element_type = "NonTerminal"
        /\ rule.elements[j].id \in nullables

RECURSIVE NewVisitIsIn(_, _, _, _)
\* for &rule_id in &is_in[current] { ... }
NewVisitIsIn(rules, occurrences, j, st) ==
    IF j > Len(occurrences) THEN st
    ELSE LET rule_id == occurrences[j]
             lhs_id == rules[rule_id + 1].id
         IN  IF /\ lhs_id \notin st.nullables
                /\ AllElementsNullable(rules[rule_id + 1], st.nullables)
             THEN NewVisitIsIn(rules, occurrences, j + 1,
                      [st EXCEPT !.nullables = @ \cup {lhs_id},
                                 !.stack = <<lhs_id>> \o @])
             ELSE NewVisitIsIn(rules, occurrences, j + 1, st)

RECURSIVE NewPropagate(_, _)
\* while let Some(current) = stack.pop_back() { ... }
NewPropagate(rules, st) ==
    IF st.stack = <<>> THEN st
    ELSE LET current == Last(st.stack)
             popped == [st EXCEPT !.stack = SubSeq(@, 1, Len(@) - 1)]
         IN  NewPropagate(rules,
                 NewVisitIsIn(rules, st.is_in[current], 1, popped))

EarleyGrammarNew(rules, axioms, nb_non_terminals) ==
    LET st0 == [rules_of  |-> EmptyPerNonTerminal(nb_non_terminals),
                is_in     |-> EmptyPerNonTerminal(nb_non_terminals),
                nullables |-> {},
                stack     |-> <<>>]
        st == NewPropagate(rules, NewScanRules(rules, 1, st0))
    IN  [axioms           |-> axioms,
         rules            |-> rules,
         nullables        |-> st.nullables,
         rules_of         |-> st.rules_of,
         nb_non_terminals |-> nb_non_terminals]

RuleAt(r) == grammar.rules[r + 1]

\* EarleyGrammar::has_rules
has_rules(id) == grammar.rules_of[id]

-----------------------------------------------------------------------------
(* LexerGrammar (lexer/grammarparser.rs) *)

\* a terminal declaration of the typed AST: comment is <<>> (None) or <<m>>
Terminal(name, ignore, unwanted, comment) ==
    [name |-> name, ignore |-> ignore, unwanted |-> unwanted,
     comment |-> comment]

\* LexerGrammar::new; the compiled pattern is left to the lexed stream
LexerGrammarNew(names, ignores, errors, descriptions) ==
    [names           |-> names,
     ignores         |-> ignores,
     errors          |-> errors,
     descriptions    |-> descriptions,
     \* ignores.0.ones().map(TerminalId).collect()
     default_allowed |-> SetToSeq(ignores),
     name_map        |-> [n \in Range(names) |->
                            (CHOOSE i \in 1..Len(names) :
                                /\ names[i] = n
                                /\ \A j \in 1..Len(names) :
                                       names[j] = n => j <= i) - 1]]

\* insertion into a map TerminalId -> text
MapInsert(m, k, v) ==
    [x \in DOMAIN m \cup {k} |-> IF x = k THEN v ELSE m[x]]

\* the ignores set that keeps the terminals declared ignore only
IgnoresPutIgnoreOnly(ignores, terminal, id) ==
    IF terminal.ignore THEN ignores \cup {id} ELSE ignores

\* if terminal.ignore || terminal.unwanted { ignores.put(id); }
IgnoresPut(ignores, terminal, id) ==
    IF terminal.ignore \/ terminal.unwanted THEN ignores \cup {id}
    ELSE ignores

\* the errors map that files the comment of every commented terminal
ErrorsInsertCommented(errors, terminal, id) ==
    IF terminal.comment # <<>> THEN MapInsert(errors, id, terminal.comment[1])
    ELSE errors

\* if terminal.unwanted { if let Some(ref message) = terminal.comment {
\*     errors.insert(id, message.clone()); } .. }
ErrorsInsert(errors, terminal, id) ==
    IF terminal.unwanted THEN MapInsert(errors, id, terminal.comment[1])
    ELSE errors

RECURSIVE BuildTerminals(_, _, _)
\* the loop of build_from_ast over typed_ast.terminals; the two error
\* constructions evaluate todo!() for their span and therefore panic
BuildTerminals(terminals, i, st) ==
    IF i > Len(terminals)
    THEN [kind    |-> "Ok",
          grammar |-> LexerGrammarNew(st.names, st.ignores, st.errors,
                                      st.descriptions),
          error   |-> "", token |-> ""]
    ELSE LET terminal == terminals[i]
             id == Len(st.names)
             ignores == IgnoresPut(st.ignores, terminal, id)
         IN  IF terminal.unwanted /\ terminal.comment = <<>>
             THEN [kind |-> "panic", grammar |-> <<>>,
                   error |-> "LexerGrammarUnwantedNoDescription",
                   token |-> terminal.name]
             ELSE IF terminal.name \in st.found_identifiers
             THEN [kind |-> "panic", grammar |-> <<>>,
                   error |-> "GrammarDuplicateDefinition",
                   token |-> terminal.name]
             ELSE BuildTerminals(terminals, i + 1,
                    [names   |-> Append(st.names, terminal.name),
                     ignores |-> ignores,
                     errors  |-> ErrorsInsert(st.errors, terminal, id),
                     descriptions |-> IF terminal.comment # <<>>
                                 THEN MapInsert(st.descriptions, id, terminal.comment[1])
                                 ELSE st.descriptions,
                     found_identifiers |-> st.found_identifiers \cup {terminal.name}])

build_from_ast(terminals) ==
    BuildTerminals(terminals, 1,
        [names |-> <<>>, ignores |-> {}, errors |-> <<>>,
         descriptions |-> <<>>, found_identifiers |-> {}])

\* LexerGrammar::name
name(idx) == lexer.names[idx + 1]

\* LexerGrammar::default_allowed
default_allowed == lexer.default_allowed

\* LexerGrammar::ignored
ignored(idx) == idx \in lexer.ignores

\* LexerGrammar::err_message: <<>> (None) or <<m>>
err_message(idx) ==
    IF idx \in DOMAIN lexer.errors THEN <<lexer.errors[idx]>> ELSE <<>>

\* Buildable::build_from_ast applied to the terminal declarations; the
\* todo!() of an error construction panics before the error is returned
BuildFromAst ==
    /\ pc = "build_from_ast"
    /\ LET r == build_from_ast(typed_ast)
       IN  IF r.kind = "Ok"
           THEN /\ lexer' = r.grammar
                /\ pc' = "built"
                /\ UNCHANGED result
           ELSE /\ result' = [kind |-> r.kind, message |-> r.error,
                              location |-> 0, token |-> r.token,
                              alternatives |-> {}]
                /\ pc' = "build_panic"
                /\ UNCHANGED lexer
    /\ UNCHANGED <<grammar, typed_ast, source, offset, last_location, sets,
                   raw_input, pos, scans, allowed, forest, tree>>

-----------------------------------------------------------------------------
(* LexedStream::next, from section 4.2 of the design: the source buffer is *)
(* a sequence of lexemes, each matched by exactly one terminal.            *)

\* regex::Allowed
AllowedAll == [all |-> TRUE, ids |-> {}]
AllowedSome(ids) == [all |-> FALSE, ids |-> ids]

Candidates(allowedSet) ==
    IF allowedSet.all THEN 0..(Len(lexer.names) - 1)
    ELSE Range(default_allowed) \cup allowedSet.ids

RECURSIVE LexNext(_, _)
LexNext(p, allowedSet) ==
    IF p >= Len(source)
    THEN [kind |-> "None", id |-> 0, location |-> p, offset |-> p,
          message |-> ""]
    ELSE LET t == source[p + 1]
         IN  IF t \notin Candidates(allowedSet)
             THEN [kind |-> "LexingError", id |-> t, location |-> p,
                   offset |-> p, message |-> "no match"]
             ELSE IF t \in DOMAIN lexer.errors
             THEN [kind |-> "LexingError", id |-> t, location |-> p,
                   offset |-> p, message |-> lexer.errors[t]]
             ELSE IF t \in lexer.ignores
             THEN LexNext(p + 1, allowedSet)
             ELSE [kind |-> "Token", id |-> t, location |-> p,
                   offset |-> p + 1, message |-> ""]

\* the Token handed to the parser; attributes maps a capture index to the
\* captured text, here the lexeme found at the token's location
Token(r) == [id |-> r.id, location |-> r.location,
             attributes |-> [i \in {0} |-> <<"lexeme", r.location>>]]

-----------------------------------------------------------------------------
(* EarleyItem, StateSet *)

EarleyItem(rule, origin, position) ==
    [rule |-> rule, origin |-> origin, position |-> position]

\* StateSet::default
StateSetDefault == [cache |-> {}, set |-> <<>>, position |-> 0]

\* StateSet::add without the lookup in the cache
StateSetAddNoCache(s, item) ==
    [s EXCEPT !.cache = @ \cup {item}, !.set = Append(@, item)]

\* StateSet::add
StateSetAdd(s, item) ==
    IF item \notin s.cache
    THEN [s EXCEPT !.cache = @ \cup {item}, !.set = Append(@, item)]
    ELSE s

RECURSIVE StateSetAddAll(_, _, _)
\* for item in to_be_added { set.add(item) }
StateSetAddAll(s, items, j) ==
    IF j > Len(items) THEN s
    ELSE StateSetAddAll(StateSetAdd(s, items[j]), items, j + 1)

\* next() that hands out an item and leaves the cursor where it was
StateSetStuck(s) == s

\* StateSet::next: the item handed out (the caller checks there is one)
StateSetNextItem(s) == s.set[s.position + 1]
StateSetHasNext(s) == s.position < Len(s.set)
\* self.position += 1
StateSetAdvance(s) == [s EXCEPT !.position = @ + 1]

\* is_empty that looks at the cursor: no item is left to hand out
StateSetExhausted(s) == s.position >= Len(s.set)

\* StateSet::is_empty
StateSetIsEmpty(s) == s.set = <<>>

SetAt(k) == sets[k + 1]

-----------------------------------------------------------------------------
(* EarleyParser::recognise *)

NoResult ==
    [kind |-> "none", message |-> "", location |-> 0, token |-> "",
     alternatives |-> {}]

OkResult ==
    [kind |-> "Ok", message |-> "", location |-> 0, token |-> "",
     alternatives |-> {}]

EOF_MESSAGE == "Reached EOF but parsing isn't done."
DISALLOWED_MESSAGE == "The token {} doesn't make sense here.\nYou could try {} instead"

RECURSIVE FirstStateAllRules(_, _)
\* the first set seeded with every rule, axiom or not
FirstStateAllRules(id, first_state) ==
    IF id >= Len(grammar.rules) THEN first_state
    ELSE FirstStateAllRules(id + 1,
             StateSetAdd(first_state, EarleyItem(id, 0, 0)))

RECURSIVE FirstStateDescending(_, _)
\* the first set seeded from the last rule back to the first
FirstStateDescending(id, first_state) ==
    IF id >= Len(grammar.rules) THEN first_state
    ELSE LET rest == FirstStateDescending(id + 1, first_state)
         IN  IF RuleAt(id).id \in grammar.axioms
             THEN StateSetAdd(rest, EarleyItem(id, 0, 0))
             ELSE rest

RECURSIVE FirstStateFrom(_, _)
\* (0..rules.len()).filter(lhs is an axiom).for_each(first_state.add(..))
FirstStateFrom(id, first_state) ==
    IF id >= Len(grammar.rules) THEN first_state
    ELSE IF RuleAt(id).id \in grammar.axioms
         THEN FirstStateFrom(id + 1,
                  StateSetAdd(first_state, EarleyItem(id, 0, 0)))
         ELSE FirstStateFrom(id + 1, first_state)

\* rule.elements.get(position)
HasElement(item) == item.position < Len(RuleAt(item.rule).elements)
ElementAt(item) == RuleAt(item.rule).elements[item.position + 1]

\* the item with the dot moved over one element
Advanced(item) == EarleyItem(item.rule, item.origin, item.position + 1)

RECURSIVE PredictedRulesAtStart(_, _)
\* the predicted items given the origin 0 instead of the current position
PredictedRulesAtStart(rule_ids, j) ==
    IF j > Len(rule_ids) THEN <<>>
    ELSE <<EarleyItem(rule_ids[j], 0, 0)>>
             \o PredictedRulesAtStart(rule_ids, j + 1)

RECURSIVE PredictedRules(_, _)
\* for &rule in has_rules(id) { to_be_added.push((rule, pos, 0)) }
PredictedRules(rule_ids, j) ==
    IF j > Len(rule_ids) THEN <<>>
    ELSE <<EarleyItem(rule_ids[j], pos, 0)>> \o PredictedRules(rule_ids, j + 1)

\* Prediction without the epsilon skip over a nullable non-terminal
PredictionNoSkip(item, id) == PredictedRules(has_rules(id), 1)

\* Prediction that skips over the non-terminal whether it is nullable or not
PredictionAlwaysSkip(item, id) ==
    PredictedRules(has_rules(id), 1) \o <<Advanced(item)>>

\* the prediction arm: the rules of the non-terminal, then the epsilon skip
Prediction(item, id) ==
    PredictedRules(has_rules(id), 1)
        \o (IF id \in grammar.nullables THEN <<Advanced(item)>> ELSE <<>>)

\* the parent waits for the non-terminal nonterminal
WaitsFor(parent, nonterminal) ==
    /\ HasElement(parent)
    /\ ElementAt(parent).element_type = "NonTerminal"
    /\ ElementAt(parent).id = nonterminal

RECURSIVE CompletedParents(_, _, _)
\* for &parent in sets[item.origin].slice() { ... }
CompletedParents(parents, j, nonterminal) ==
    IF j > Len(parents) THEN <<>>
    ELSE (IF WaitsFor(parents[j], nonterminal)
          THEN <<Advanced(parents[j])>> ELSE <<>>)
         \o CompletedParents(parents, j + 1, nonterminal)

\* the completion arm looking for parents in the set being filled
CompletionInLastSet(item) ==
    CompletedParents(sets[Len(sets)].set, 1, RuleAt(item.rule).id)

\* the completion arm
Completion(item) ==
    CompletedParents(SetAt(item.origin).set, 1, RuleAt(item.rule).id)

\* the push that puts the item in front of the items queued for id
ScansPushFront(m, id, item) ==
    IF id \in DOMAIN m THEN [m EXCEPT ![id] = <<item>> \o @]
    ELSE [x \in DOMAIN m \cup {id} |-> IF x = id THEN <<item>> ELSE m[x]]

\* scans.entry(id).or_insert(Vec::new()).push(item)
ScansPush(m, id, item) ==
    IF id \in DOMAIN m THEN [m EXCEPT ![id] = Append(@, item)]
    ELSE [x \in DOMAIN m \cup {id} |-> IF x = id THEN <<item>> ELSE m[x]]

\* scans.entry(id).or_default()
ScansEntry(m, id) == IF id \in DOMAIN m THEN m[id] ELSE <<>>

\* the inner-loop turn that adds the items to the first set of the chart
InnerStepFirstSet(to_be_added) ==
    sets' = [sets EXCEPT ![Len(sets)] = StateSetAdvance(@),
                         ![1] = StateSetAddAll(@, to_be_added, 1)]

\* one turn of the inner loop: next() hands out an item, the items of
\* to_be_added are added to the last set
InnerStep(to_be_added) ==
    sets' = [sets EXCEPT ![Len(sets)] =
                StateSetAddAll(StateSetAdvance(@), to_be_added, 1)]

CurrentItem == StateSetNextItem(Last(sets))

Predict ==
    /\ pc = "recognise"
    /\ StateSetHasNext(Last(sets))
    /\ HasElement(CurrentItem)
    /\ ElementAt(CurrentItem).element_type = "NonTerminal"
    /\ InnerStep(Prediction(CurrentItem, ElementAt(CurrentItem).id))
    /\ UNCHANGED <<tree, typed_ast, grammar, lexer, source, offset, last_location, raw_input,
                   pos, scans, allowed, forest, result, pc>>

Scan ==
    /\ pc = "recognise"
    /\ StateSetHasNext(Last(sets))
    /\ HasElement(CurrentItem)
    /\ ElementAt(CurrentItem).element_type = "Terminal"
    /\ scans' = ScansPush(scans, ElementAt(CurrentItem).id,
                          Advanced(CurrentItem))
    /\ InnerStep(<<>>)
    /\ UNCHANGED <<tree, typed_ast, grammar, lexer, source, offset, last_location, raw_input,
                   pos, allowed, forest, result, pc>>

Complete ==
    /\ pc = "recognise"
    /\ StateSetHasNext(Last(sets))
    /\ ~HasElement(CurrentItem)
    /\ InnerStep(Completion(CurrentItem))
    /\ UNCHANGED <<tree, typed_ast, grammar, lexer, source, offset, last_location, raw_input,
                   pos, scans, allowed, forest, result, pc>>

\* the allowed set made of the keys of scans alone
ScansKeysOnly == DOMAIN scans

\* the allowed list naming every terminal of the lexer grammar
PossibleScansAll == 0..(Len(lexer.names) - 1)

\* default_allowed().chain(scans.keys().cloned())
possible_scans == Range(default_allowed) \cup DOMAIN scans

\* Accepting without the test on the position of the dot
AcceptingIncomplete(s) ==
    \E j \in 1..Len(s.set) :
        /\ s.set[j].origin = 0
        /\ RuleAt(s.set[j].rule).id \in grammar.axioms

\* Accepting without the test on the origin
AcceptingAnyOrigin(s) ==
    \E j \in 1..Len(s.set) :
        /\ RuleAt(s.set[j].rule).id \in grammar.axioms
        /\ Len(RuleAt(s.set[j].rule).elements) = s.set[j].position

\* sets.last().set.iter().any(|item| origin == 0 && axiom && complete)
Accepting(s) ==
    \E j \in 1..Len(s.set) :
        /\ s.set[j].origin = 0
        /\ RuleAt(s.set[j].rule).id \in grammar.axioms
        /\ Len(RuleAt(s.set[j].rule).elements) = s.set[j].position

\* the next set written over the last set of the chart
SetsReplaceLast(table, next_state) ==
    [table EXCEPT ![Len(table)] = next_state]

\* sets.push(next_state)
SetsPush(table, next_state) == Append(table, next_state)

\* input.next(allowed) returned a token: seed the next set from scans
Shift ==
    /\ pc = "recognise"
    /\ ~StateSetHasNext(Last(sets))
    /\ LET r == LexNext(offset, AllowedSome(possible_scans))
       IN  /\ r.kind = "Token"
           /\ sets' = SetsPush(sets,
                  StateSetAddAll(StateSetDefault, ScansEntry(scans, r.id), 1))
           /\ raw_input' = Append(raw_input, Token(r))
           /\ offset' = r.offset
           /\ last_location' = r.location
    /\ allowed' = possible_scans
    /\ pos' = pos + 1
    /\ scans' = <<>>
    /\ UNCHANGED <<tree, typed_ast, grammar, lexer, source, forest, result, pc>>

\* input.next(allowed) returned None: accept or reject at EOF
EndOfInput ==
    /\ pc = "recognise"
    /\ ~StateSetHasNext(Last(sets))
    /\ LET r == LexNext(offset, AllowedSome(possible_scans))
       IN  /\ r.kind = "None"
           /\ offset' = r.offset
    /\ allowed' = possible_scans
    /\ IF Accepting(Last(sets))
       THEN /\ result' = OkResult
            /\ pc' = "to_forest"
       ELSE /\ result' = [kind |-> "SyntaxError", message |-> EOF_MESSAGE,
                          location |-> last_location, token |-> "",
                          alternatives |-> {}]
            /\ pc' = "recognise_err"
    /\ UNCHANGED <<tree, typed_ast, grammar, lexer, source, last_location, sets, raw_input,
                   pos, scans, forest>>

\* the report listing everything the lexer was allowed to return
LexErrorResultAllAllowed(r2) ==
    IF r2.kind = "Token"
    THEN [kind |-> "SyntaxError", message |-> DISALLOWED_MESSAGE,
          location |-> r2.location, token |-> name(r2.id),
          alternatives |-> {name(t) : t \in possible_scans}]
    ELSE IF r2.kind = "None"
    THEN [kind |-> "SyntaxError", message |-> EOF_MESSAGE,
          location |-> last_location, token |-> "", alternatives |-> {}]
    ELSE [kind |-> "LexingError", message |-> r2.message,
          location |-> r2.location, token |-> "", alternatives |-> {}]

\* the let-else arm: what recognise returns when input.next(allowed) is Err
LexErrorResult(r2) ==
    IF r2.kind = "Token"
    THEN [kind |-> "SyntaxError", message |-> DISALLOWED_MESSAGE,
          location |-> r2.location, token |-> name(r2.id),
          alternatives |-> {name(t) : t \in DOMAIN scans}]
    ELSE IF r2.kind = "None"
    THEN [kind |-> "SyntaxError", message |-> EOF_MESSAGE,
          location |-> last_location, token |-> "", alternatives |-> {}]
    ELSE [kind |-> "LexingError", message |-> r2.message,
          location |-> r2.location, token |-> "", alternatives |-> {}]

\* input.next(allowed) returned Err: lex again with Allowed::All and report
LexError ==
    /\ pc = "recognise"
    /\ ~StateSetHasNext(Last(sets))
    /\ LET r == LexNext(offset, AllowedSome(possible_scans))
           r2 == LexNext(r.offset, AllowedAll)
       IN  /\ r.kind = "LexingError"
           /\ result' = LexErrorResult(r2)
           /\ offset' = r2.offset
           /\ last_location' = IF r2.kind = "Token" THEN r2.location
                               ELSE last_location
    /\ allowed' = possible_scans
    /\ pc' = "recognise_err"
    /\ UNCHANGED <<tree, typed_ast, grammar, lexer, source, sets, raw_input, pos, scans,
                   forest>>

-----------------------------------------------------------------------------
(* FinalSet, EarleyParser::to_forest *)

FinalItem(rule, end) == [rule |-> rule, end |-> end]

\* FinalSet::default
FinalSetDefault == [index |-> <<>>, set |-> <<>>, position |-> 0]

\* FinalSet::add with the index keyed by the rule instead of its left-hand
\* side
FinalSetAddByRule(fs, item) ==
    LET lhs == item.rule
        at == Len(fs.set)
    IN  [fs EXCEPT
           !.index = IF lhs \in DOMAIN fs.index
                     THEN [fs.index EXCEPT ![lhs] = Append(@, at)]
                     ELSE [x \in DOMAIN fs.index \cup {lhs} |->
                              IF x = lhs THEN <<at>> ELSE fs.index[x]],
           !.set = Append(@, item)]

\* FinalSet::add: index.entry(lhs).or_default().push(set.len()); set.push(item)
FinalSetAdd(fs, item) ==
    LET lhs == RuleAt(item.rule).id
        at == Len(fs.set)
    IN  [fs EXCEPT
           !.index = IF lhs \in DOMAIN fs.index
                     THEN [fs.index EXCEPT ![lhs] = Append(@, at)]
                     ELSE [x \in DOMAIN fs.index \cup {lhs} |->
                              IF x = lhs THEN <<at>> ELSE fs.index[x]],
           !.set = Append(@, item)]

\* item.position == rules[item.rule].elements.len()
IsCompleted(item) == item.position = Len(RuleAt(item.rule).elements)

RECURSIVE ForestAddCompletedAtEnd(_, _, _, _)
\* the completed items filed under the set they end in, not their origin
ForestAddCompletedAtEnd(f, items, j, i) ==
    IF j > Len(items) \/ Len(f) = 0 THEN f
    ELSE IF IsCompleted(items[j])
         THEN ForestAddCompletedAtEnd(
                  [f EXCEPT ![i + 1] =
                       FinalSetAdd(@, FinalItem(items[j].rule, i))],
                  items, j + 1, i)
         ELSE ForestAddCompletedAtEnd(f, items, j + 1, i)

RECURSIVE ForestAddCompleted(_, _, _, _)
\* set.iter().filter(completed).for_each(|item| forest[item.origin].add(..));
\* a forest without sets has none to add to, and reading Len(f) at every item
\* makes the forest a value before the next item is handled
ForestAddCompleted(f, items, j, i) ==
    IF j > Len(items) \/ Len(f) = 0 THEN f
    ELSE IF IsCompleted(items[j])
         THEN ForestAddCompleted(
                  [f EXCEPT ![items[j].origin + 1] =
                       FinalSetAdd(@, FinalItem(items[j].rule, i))],
                  items, j + 1, i)
         ELSE ForestAddCompleted(f, items, j + 1, i)

RECURSIVE ToForestFrom(_, _, _, _)
\* for (i, set) in table.iter().enumerate() { ... }; raw_input[i] is out of
\* bounds when the empty set is the last one
ToForestFrom(table, raw, i, f) ==
    IF i >= Len(table)
    THEN [kind |-> "Ok", forest |-> f, message |-> "", location |-> 0]
    ELSE LET positioned == [f EXCEPT ![i + 1].position = i]
         IN  IF StateSetIsEmpty(table[i + 1])
             THEN IF i < Len(raw)
                  THEN [kind |-> "SyntaxError", forest |-> <<>>,
                        message |-> "Syntax error at token " \o ToString(i),
                        location |-> raw[i + 1].location]
                  ELSE [kind |-> "panic", forest |-> <<>>,
                        message |-> "index out of bounds", location |-> 0]
             ELSE ToForestFrom(table, raw, i + 1,
                      ForestAddCompleted(positioned, table[i + 1].set, 1, i))

to_forest(table, raw) ==
    ToForestFrom(table, raw, 0, [i \in 1..Len(table) |-> FinalSetDefault])

\* parse: to_forest(&table, &raw_input)?
ToForest ==
    /\ pc = "to_forest"
    /\ LET r == to_forest(sets, raw_input)
       IN  IF r.kind = "Ok"
           THEN /\ forest' = r.forest
                /\ pc' = "select_ast"
                /\ UNCHANGED result
           ELSE /\ result' = [kind |-> r.kind, message |-> r.message,
                              location |-> r.location, token |-> "",
                              alternatives |-> {}]
                /\ pc' = "to_forest_err"
                /\ UNCHANGED forest
    /\ UNCHANGED <<tree, typed_ast, grammar, lexer, source, offset, last_location, sets,
                   raw_input, pos, scans, allowed>>

-----------------------------------------------------------------------------
(* SyntaxicItem, AST and EarleyParser::find_children                       *)

\* SyntaxicItem with SyntaxicItemKind::Rule / SyntaxicItemKind::Token
SyntaxicRule(rule, start, end) ==
    [kind |-> "Rule", rule |-> rule, start |-> start, end |-> end]
SyntaxicToken(token, start, end) ==
    [kind |-> "Token", token |-> token, start |-> start, end |-> end]

\* parser::AST; the span of a literal is <<>> (None) or <<s>>
ASTNode(nonterminal, attributes, span) ==
    [kind |-> "Node", nonterminal |-> nonterminal, attributes |-> attributes,
     span |-> span]
ASTTerminal(token) == [kind |-> "Terminal", token |-> token]
ASTLiteral(value, span) == [kind |-> "Literal", value |-> value, span |-> span]

\* Location::sup: the smallest span enclosing both locations
Sup(l1, l2) == << IF l1 <= l2 THEN l1 ELSE l2, IF l1 <= l2 THEN l2 ELSE l1 >>

Reverse(s) == [k \in 1..Len(s) |-> s[Len(s) + 1 - k]]

\* the lookup in the forest that keeps the final items ending before
\* element.end only
FinalItemsStrictlyWithin(fs, id, end) ==
    IF id \in DOMAIN fs.index
    THEN SelectSeq([k \in 1..Len(fs.index[id]) |-> fs.set[fs.index[id][k] + 1]],
                   LAMBDA final_item : final_item.end < end)
    ELSE <<>>

\* forest[curpos].index.get(&id), mapped to the final items and filtered by
\* final_item.end <= element.end
FinalItemsWithin(fs, id, end) ==
    IF id \in DOMAIN fs.index
    THEN SelectSeq([k \in 1..Len(fs.index[id]) |-> fs.set[fs.index[id][k] + 1]],
                   LAMBDA final_item : final_item.end <= end)
    ELSE <<>>

\* what one (children, curpos) entry of the boundary pushes to next_boundary
\* for elem; children is a cons list, its head is the child added last
BoundaryStep(entry, elem, element, f, raw) ==
    IF elem.element_type = "NonTerminal"
    THEN LET items == FinalItemsWithin(f[entry.curpos + 1], elem.id,
                                       element.end)
         IN  [k \in 1..Len(items) |->
                 [children |-> <<SyntaxicRule(items[k].rule, entry.curpos,
                                              items[k].end)>>
                                   \o entry.children,
                  curpos   |-> items[k].end]]
    ELSE IF entry.curpos < element.end /\ raw[entry.curpos + 1].id = elem.id
         THEN << [children |-> <<SyntaxicToken(raw[entry.curpos + 1],
                                               entry.curpos,
                                               entry.curpos + 1)>>
                                   \o entry.children,
                  curpos   |-> entry.curpos + 1] >>
         ELSE <<>>

RECURSIVE NextBoundary(_, _, _, _, _, _, _)
\* for (children, curpos) in boundary.drain(..) { ... next_boundary.push(..) }
\* what the entries lo..hi of the boundary push, in order
NextBoundary(boundary, lo, hi, elem, element, f, raw) ==
    IF lo > hi THEN <<>>
    ELSE IF lo = hi THEN BoundaryStep(boundary[lo], elem, element, f, raw)
    ELSE LET mid == (lo + hi) \div 2
         IN  NextBoundary(boundary, lo, mid, elem, element, f, raw)
                \o NextBoundary(boundary, mid + 1, hi, elem, element, f, raw)

RECURSIVE BoundaryFrom(_, _, _, _, _)
\* for elem in rules[rule].elements.iter() { ...
\*     boundary.extend(next_boundary.into_iter().rev()) }
BoundaryFrom(boundary, j, element, f, raw) ==
    LET elements == RuleAt(element.rule).elements
    IN  IF j > Len(elements) THEN boundary
        ELSE BoundaryFrom(
                 Reverse(NextBoundary(boundary, 1, Len(boundary), elements[j],
                                      element, f, raw)),
                 j + 1, element, f, raw)

\* the cons lists that reach element.end, in the order max_by sees them
CompleteSequences(element, f, raw) ==
    LET boundary == BoundaryFrom(<<[children |-> <<>>,
                                    curpos |-> element.start]>>,
                                 1, element, f, raw)
        kept == SelectSeq(boundary, LAMBDA entry : entry.curpos = element.end)
    IN  [k \in 1..Len(kept) |-> kept[k].children]

\* usize::cmp
Cmp(a, b) == IF a < b THEN "Less" ELSE IF a > b THEN "Greater" ELSE "Equal"

RECURSIVE CompareChildrenForward(_, _, _, _)
\* the comparison walking the two lists from the rule's first child on
CompareChildrenForward(left_children, right_children, k, left_associative) ==
    IF k > Len(left_children) \/ k > Len(right_children) THEN "Equal"
    ELSE LET left == left_children[Len(left_children) + 1 - k]
             right == right_children[Len(right_children) + 1 - k]
         IN  IF left.kind # "Rule" \/ right.kind # "Rule"
             THEN CompareChildrenForward(left_children, right_children, k + 1,
                                         left_associative)
             ELSE LET assoc_ord == IF left_associative
                                   THEN Cmp(left.start, right.start)
                                   ELSE Cmp(right.start, left.start)
                      ord == IF assoc_ord = "Equal"
                             THEN Cmp(left.rule, right.rule)
                             ELSE assoc_ord
                  IN  IF ord = "Equal"
                      THEN CompareChildrenForward(left_children,
                               right_children, k + 1, left_associative)
                      ELSE ord

RECURSIVE CompareChildrenLeft(_, _, _, _)
\* the comparison taking every rule for left associative
CompareChildrenLeft(left_children, right_children, k, left_associative) ==
    IF k > Len(left_children) \/ k > Len(right_children) THEN "Equal"
    ELSE LET left == left_children[k]
             right == right_children[k]
         IN  IF left.kind # "Rule" \/ right.kind # "Rule"
             THEN CompareChildrenLeft(left_children, right_children, k + 1,
                                      left_associative)
             ELSE LET assoc_ord == Cmp(left.start, right.start)
                      ord == IF assoc_ord = "Equal"
                             THEN Cmp(left.rule, right.rule)
                             ELSE assoc_ord
                  IN  IF ord = "Equal"
                      THEN CompareChildrenLeft(left_children, right_children,
                                               k + 1, left_associative)
                      ELSE ord

RECURSIVE CompareChildrenSmallerRule(_, _, _, _)
\* the comparison preferring the smaller RuleId when the starts are equal
CompareChildrenSmallerRule(left_children, right_children, k, left_associative) ==
    IF k > Len(left_children) \/ k > Len(right_children) THEN "Equal"
    ELSE LET left == left_children[k]
             right == right_children[k]
         IN  IF left.kind # "Rule" \/ right.kind # "Rule"
             THEN CompareChildrenSmallerRule(left_children, right_children,
                                             k + 1, left_associative)
             ELSE LET assoc_ord == IF left_associative
                                   THEN Cmp(left.start, right.start)
                                   ELSE Cmp(right.start, left.start)
                      ord == IF assoc_ord = "Equal"
                             THEN Cmp(right.rule, left.rule)
                             ELSE assoc_ord
                  IN  IF ord = "Equal"
                      THEN CompareChildrenSmallerRule(left_children,
                               right_children, k + 1, left_associative)
                      ELSE ord

RECURSIVE CompareChildren(_, _, _, _)
\* the closure given to max_by: left_children.iter().zip(right_children.iter())
\* walks the cons lists from their heads, that is from the rule's last child
CompareChildren(left_children, right_children, k, left_associative) ==
    IF k > Len(left_children) \/ k > Len(right_children) THEN "Equal"
    ELSE LET left == left_children[k]
             right == right_children[k]
         IN  IF left.kind # "Rule" \/ right.kind # "Rule"
             THEN CompareChildren(left_children, right_children, k + 1,
                                  left_associative)
             ELSE LET assoc_ord == IF left_associative
                                   THEN Cmp(left.start, right.start)
                                   ELSE Cmp(right.start, left.start)
                      ord == IF assoc_ord = "Equal"
                             THEN Cmp(left.rule, right.rule)
                             ELSE assoc_ord
                  IN  IF ord = "Equal"
                      THEN CompareChildren(left_children, right_children,
                                           k + 1, left_associative)
                      ELSE ord

RECURSIVE MaxBy(_, _, _, _)
\* Iterator::max_by: of several maximal elements the last one is returned
MaxBy(candidates, k, best, left_associative) ==
    IF k > Len(candidates) THEN best
    ELSE IF CompareChildren(best, candidates[k], 1, left_associative)
                = "Greater"
         THEN MaxBy(candidates, k + 1, best, left_associative)
         ELSE MaxBy(candidates, k + 1, candidates[k], left_associative)

\* find_children without the final .rev(): the children as the cons list
\* holds them, the child of the last element first
FindChildrenConsOrder(element, f, raw) ==
    IF element.kind = "Token"
    THEN [kind |-> "Ok", children |-> <<>>]
    ELSE LET candidates == CompleteSequences(element, f, raw)
         IN  IF candidates = <<>>
             THEN [kind |-> "panic", children |-> <<>>]
             ELSE [kind |-> "Ok",
                   children |->
                       MaxBy(candidates, 2, candidates[1],
                             RuleAt(element.rule).left_associative)]

\* find_children: the children in rule order, or the panic of unwrap()
find_children(element, f, raw) ==
    IF element.kind = "Token"
    THEN [kind |-> "Ok", children |-> <<>>]
    ELSE LET candidates == CompleteSequences(element, f, raw)
         IN  IF candidates = <<>>
             THEN [kind |-> "panic", children |-> <<>>]
             ELSE [kind |-> "Ok",
                   children |->
                       Reverse(MaxBy(candidates, 2, candidates[1],
                                     RuleAt(element.rule).left_associative))]

-----------------------------------------------------------------------------
(* EarleyParser::build_ast and select_ast                                  *)

\* outcomes of build_ast: a tree, a panic, or a recursion that never returns
BuiltOk(ast) == [kind |-> "Ok", ast |-> ast, message |-> ""]
BuiltPanic(message) == [kind |-> "panic", ast |-> <<>>, message |-> message]
BuiltOverflow ==
    [kind |-> "overflow", ast |-> <<>>, message |-> "stack overflow"]

\* the pairing that stores the child itself whatever the attribute
PairAttributeChild(item, element) == BuiltOk(item)

\* the pair filter_map yields for a keyed element and the AST of its child
PairAttribute(item, element) ==
    CASE element.attribute.kind = "Named" ->
            IF item.kind # "Node" THEN BuiltPanic("unreachable")
            ELSE IF element.attribute.attr \notin DOMAIN item.attributes
            THEN BuiltPanic("key not found")
            ELSE BuiltOk(item.attributes[element.attribute.attr])
      [] element.attribute.kind = "Indexed" ->
            IF item.kind # "Terminal" THEN BuiltPanic("unreachable")
            ELSE IF element.attribute.idx \notin DOMAIN item.token.attributes
            THEN BuiltPanic("index out of bounds")
            ELSE BuiltOk(ASTLiteral(
                     item.token.attributes[element.attribute.idx],
                     <<item.token.location>>))
      [] OTHER -> BuiltOk(item)

\* HashMap::insert on a map key -> AST
AttributesInsert(m, k, v) ==
    [x \in DOMAIN m \cup {k} |-> IF x = k THEN v ELSE m[x]]

RECURSIVE Evaluate(_, _, _, _)
RECURSIVE EvaluateProxy(_, _, _, _, _)
\* ProxyValue::evaluate, from section 4.6 of the design: a literal evaluates
\* to itself, a reference reads all_attributes and marks the key consumed, a
\* node constructor evaluates its own proxy over the same attribute map
Evaluate(wanted, all_attributes, removed, span) ==
    CASE wanted.kind = "Literal" ->
            [value |-> ASTLiteral(wanted.value, <<span>>),
             removed |-> removed]
      [] wanted.kind = "Reference" ->
            [value |-> all_attributes[wanted.key],
             removed |-> removed \cup {wanted.key}]
      [] OTHER ->
            LET inner == EvaluateProxy(wanted.proxy, 1, all_attributes,
                             [attributes |-> <<>>, removed |-> removed], span)
            IN  [value |-> ASTNode(wanted.nonterminal, inner.attributes, span),
                 removed |-> inner.removed]

\* rules[rule].proxy.iter().map(|(key, wanted)| (key, wanted.evaluate(..)))
\*     .collect(), with the removed set threaded through
EvaluateProxy(proxy, k, all_attributes, acc, span) ==
    IF k > Len(proxy) THEN acc
    ELSE LET r == Evaluate(proxy[k].wanted, all_attributes, acc.removed, span)
         IN  EvaluateProxy(proxy, k + 1, all_attributes,
                 [attributes |-> AttributesInsert(acc.attributes,
                                                  proxy[k].key, r.value),
                  removed |-> r.removed],
                 span)

\* all_attributes with every entry kept, consumed or not
KeepAll(all_attributes, removed) == all_attributes

\* all_attributes.into_iter().filter(|(key, _)| !removed.contains(key))
KeepUnremoved(all_attributes, removed) ==
    [k \in DOMAIN all_attributes \ removed |-> all_attributes[k]]

\* the extend that leaves an entry of m in place when more has its key
ExtendKeep(m, more) ==
    [k \in DOMAIN m \cup DOMAIN more |->
        IF k \in DOMAIN m THEN m[k] ELSE more[k]]

\* HashMap::extend: an entry of more replaces the entry of m with its key
Extend(m, more) ==
    [k \in DOMAIN m \cup DOMAIN more |->
        IF k \in DOMAIN more THEN more[k] ELSE m[k]]

\* the AST::Node built from all_attributes once the children are paired
BuildNode(rule, all_attributes, span) ==
    LET nonterminal == RuleAt(rule).id
        evaluated == EvaluateProxy(RuleAt(rule).proxy, 1, all_attributes,
                         [attributes |-> <<>>, removed |-> {}], span)
    IN  ASTNode(nonterminal,
                Extend(evaluated.attributes,
                       KeepUnremoved(all_attributes, evaluated.removed)),
                span)

RECURSIVE build_ast(_, _, _, _)
RECURSIVE BuildChildren(_, _, _, _, _, _, _)
\* build_ast; callers holds the items of the calls on the stack: the function
\* depends on its arguments only, so a call for an item that is being built
\* recurses without end
build_ast(item, f, raw, callers) ==
    IF item.kind = "Token" THEN BuiltOk(ASTTerminal(item.token))
    ELSE IF item \in callers THEN BuiltOverflow
    ELSE IF item.start >= Len(raw)
    THEN BuiltPanic("index out of bounds")            \* raw_input[item.start]
    ELSE IF item.end = 0
    THEN BuiltPanic("attempt to subtract with overflow")   \* item.end - 1
    ELSE LET span == Sup(raw[item.start + 1].location, raw[item.end].location)
             found == find_children(item, f, raw)
         IN  IF found.kind # "Ok"
             THEN BuiltPanic("unwrap on a None value")
             ELSE LET all == BuildChildren(found.children, 1,
                                 RuleAt(item.rule).elements, <<>>, f, raw,
                                 callers \cup {item})
                  IN  IF all.kind # "Ok" THEN all
                      ELSE BuiltOk(BuildNode(item.rule, all.ast, span))

\* .map(|item| self.build_ast(item, ..)).zip(elements).filter_map(..)
\*     .collect::<HashMap<_, _>>(): child by child, a later key replacing an
\* earlier equal one
BuildChildren(children, k, elements, all_attributes, f, raw, callers) ==
    IF k > Len(children) \/ k > Len(elements) THEN BuiltOk(all_attributes)
    ELSE LET child == build_ast(children[k], f, raw, callers)
         IN  IF child.kind # "Ok" THEN child
             ELSE IF elements[k].key = <<>>
             THEN BuildChildren(children, k + 1, elements, all_attributes, f,
                                raw, callers)
             ELSE LET pair == PairAttribute(child.ast, elements[k])
                  IN  IF pair.kind # "Ok" THEN pair
                      ELSE BuildChildren(children, k + 1, elements,
                               AttributesInsert(all_attributes,
                                                elements[k].key[1], pair.ast),
                               f, raw, callers)

\* forest[0].iter().filter(|item| item.end == raw_input.len() && axiom)
RootCandidates(f, raw) ==
    SelectSeq(f[1].set,
              LAMBDA item : /\ item.end = Len(raw)
                            /\ RuleAt(item.rule).id \in grammar.axioms)

RECURSIVE SortedByRule(_)
\* the items by increasing rule
SortedByRule(items) ==
    IF items = <<>> THEN <<>>
    ELSE LET first == CHOOSE k \in 1..Len(items) :
                          \A j \in 1..Len(items) :
                              items[k].rule <= items[j].rule
         IN  <<items[first]>>
                \o SortedByRule(SelectSeq(items,
                                    LAMBDA item : item # items[first]))

RECURSIVE SortedByReverseRule(_)
\* .sorted_unstable_by_key(|item| Reverse(item.rule)): Reverse inverts the
\* order of the key, so the items come by decreasing rule
SortedByReverseRule(items) ==
    IF items = <<>> THEN <<>>
    ELSE LET first == CHOOSE k \in 1..Len(items) :
                          \A j \in 1..Len(items) :
                              items[k].rule >= items[j].rule
         IN  <<items[first]>>
                \o SortedByReverseRule(SelectSeq(items,
                                           LAMBDA item : item # items[first]))

\* the item select_ast expands: the first of the sorted candidates
RootItem(f, raw) ==
    SyntaxicRule(SortedByReverseRule(RootCandidates(f, raw))[1].rule, 0,
                 Len(raw))

\* select_ast: only the first candidate is built (.map(..).next().unwrap())
select_ast(f, raw) ==
    IF RootCandidates(f, raw) = <<>>
    THEN BuiltPanic("unwrap on a None value")
    ELSE build_ast(RootItem(f, raw), f, raw, {})

\* parse: let tree = self.select_ast(&forest, &raw_input)
SelectAst ==
    /\ pc = "select_ast"
    /\ LET r == select_ast(forest, raw_input)
       IN  IF r.kind = "Ok"
           THEN /\ tree' = r.ast
                /\ pc' = "parsed"
                /\ UNCHANGED result
           ELSE /\ result' = [kind |-> r.kind, message |-> r.message,
                              location |-> 0, token |-> "",
                              alternatives |-> {}]
                /\ pc' = IF r.kind = "panic" THEN "select_ast_panic"
                         ELSE "select_ast_overflow"
                /\ UNCHANGED tree
    /\ UNCHANGED <<typed_ast, grammar, lexer, source, offset, last_location,
                   sets, raw_input, pos, scans, allowed, forest>>

-----------------------------------------------------------------------------
(* The grammars and inputs explored *)

\* non-terminals A = 0, B = 1; terminals a = 0, b = 1, WS = 2, BAD = 3
RulePool ==
    << Rule(0, <<>>, FALSE),                    \* A ::=
       Rule(0, <<N(1)>>, FALSE),                \* A ::= B
       Rule(1, <<N(0)>>, FALSE),                \* B ::= A
       Rule(0, <<T(0)>>, FALSE),                \* A ::= a
       Rule(0, <<N(0), N(0)>>, FALSE),          \* A ::= A A
       Rule(1, <<T(1)>>, FALSE),                \* B ::= b
       Rule(0, <<N(0), T(1), N(1)>>, TRUE),     \* A ::= A b B
       Rule(1, <<T(0), N(0), T(1)>>, FALSE) >>  \* B ::= a A b

PoolTerminals ==
    << Terminal("a", FALSE, FALSE, <<>>),
       Terminal("b", FALSE, FALSE, <<>>),
       Terminal("WS", TRUE, FALSE, <<>>),
       Terminal("BAD", FALSE, TRUE, <<"bad lexeme">>) >>

\* the rules of the pool picked by S, in pool order
PickRules(S) == LET ids == SetToSeq(S)
                IN  [j \in 1..Len(ids) |-> RulePool[ids[j]]]

PoolCases ==
    { [rules |-> PickRules(S), axioms |-> ax, nb_non_terminals |-> 2,
       terminals |-> PoolTerminals, source |-> src] :
        S \in {S \in SUBSET (1..Len(RulePool)) : Cardinality(S) <= MaxRules},
        ax \in {{}, {0}, {0, 1}},
        src \in SeqsUpTo({0, 1, 2}, MaxInputLen) }

\* sources with lexemes of the unwanted terminal, for A ::= a | A A
UnwantedCases ==
    { [rules |-> PickRules({4, 5}), axioms |-> {0}, nb_non_terminals |-> 2,
       terminals |-> PoolTerminals, source |-> src] :
        src \in { s \in SeqsUpTo(0..(Len(PoolTerminals) - 1), MaxInputLen) :
                    \E i \in 1..Len(s) : s[i] = 3 } }

\* the arithmetic grammar of the tests: Sum = 0, Product = 1, Factor = 2;
\* NUMBER = 0, PM = 1, TD = 2, LPAR = 3, RPAR = 4
NumbersRules ==
    << \* Sum ::= Sum@left PM Product@right <>
       Rule(0, <<Keyed(N(0), AttributeNone, "left"), T(1),
                 Keyed(N(1), AttributeNone, "right")>>, FALSE),
       \* Sum ::= Product@self <>
       Rule(0, <<Keyed(N(1), AttributeNone, "self")>>, FALSE),
       \* Product ::= Product@left TD Factor@right <>
       Rule(1, <<Keyed(N(1), AttributeNone, "left"), T(2),
                 Keyed(N(2), AttributeNone, "right")>>, FALSE),
       \* Product ::= Factor.self@self <>
       Rule(1, <<Keyed(N(2), AttributeNamed("self"), "self")>>, FALSE),
       \* Factor ::= LPAR Sum@self RPAR <>
       Rule(2, <<T(3), Keyed(N(0), AttributeNone, "self"), T(4)>>, FALSE),
       \* Factor ::= NUMBER.0@self <>
       Rule(2, <<Keyed(T(0), AttributeIndexed(0), "self")>>, FALSE) >>

NumbersTerminals ==
    << Terminal("NUMBER", FALSE, FALSE, <<>>),
       Terminal("PM", FALSE, FALSE, <<>>),
       Terminal("TD", FALSE, FALSE, <<>>),
       Terminal("LPAR", FALSE, FALSE, <<>>),
       Terminal("RPAR", FALSE, FALSE, <<>>) >>

NumbersSources ==
    SeqsUpTo(0..(Len(NumbersTerminals) - 1), MaxInputLen)
        \cup { <<0, 1, 0, 1>>,                  \* 1+2+
               <<0, 1, 3, 0, 2, 0, 1, 0, 4>> }  \* 1+(2*3-4)

NumbersCases ==
    { [rules |-> NumbersRules, axioms |-> {0}, nb_non_terminals |-> 3,
       terminals |-> NumbersTerminals, source |-> src] :
        src \in NumbersSources }

\* a grammar whose nullability propagates through several non-terminals:
\* A = 0, B = 1, C = 2, D = 3; terminals a = 0, b = 1, WS = 2, BAD = 3
ChainRules ==
    << Rule(3, <<N(0), T(0)>>, FALSE),          \* D ::= A a
       Rule(0, <<N(1), N(2)>>, FALSE),          \* A ::= B C
       Rule(1, <<N(2), N(2)>>, FALSE),          \* B ::= C C
       Rule(3, <<N(1), N(3)>>, FALSE),          \* D ::= B D
       Rule(2, <<>>, FALSE),                    \* C ::=
       Rule(2, <<T(1)>>, FALSE) >>              \* C ::= b

ChainCases ==
    { [rules |-> ChainRules, axioms |-> {3}, nb_non_terminals |-> 4,
       terminals |-> PoolTerminals, source |-> src] :
        src \in SeqsUpTo({0, 1}, MaxInputLen) }

\* <Name>: the proxy giving the variant of a rule
Variant(v) == ProxyEntry("variant", ProxyLiteral(v))

\* the grammar of the priority test: Expr = 0, terminals as for NumbersRules
ImprovedRules ==
    << \* NUMBER.0@value <Literal>
       WithProxy(Rule(0, <<Keyed(T(0), AttributeIndexed(0), "value")>>,
                      FALSE),
                 <<Variant("Literal")>>),
       \* (left-assoc) Expr@left TD Expr@right <MulDiv>
       WithProxy(Rule(0, <<Keyed(N(0), AttributeNone, "left"), T(2),
                           Keyed(N(0), AttributeNone, "right")>>, TRUE),
                 <<Variant("MulDiv")>>),
       \* (right-assoc) Expr@left PM Expr@right <AddSub>
       WithProxy(Rule(0, <<Keyed(N(0), AttributeNone, "left"), T(1),
                           Keyed(N(0), AttributeNone, "right")>>, FALSE),
                 <<Variant("AddSub")>>),
       \* LPAR Expr@value RPAR <Through>
       WithProxy(Rule(0, <<T(3), Keyed(N(0), AttributeNone, "value"), T(4)>>,
                      FALSE),
                 <<Variant("Through")>>) >>

\* 1+2+3*4*5+6+7*8
PrioritySource == <<0, 1, 0, 1, 0, 2, 0, 2, 0, 1, 0, 1, 0, 2, 0>>

ImprovedSources ==
    SeqsUpTo({0, 1, 2}, MaxInputLen)
        \cup { PrioritySource,
               <<0, 1, 0, 1, 0>>,               \* 1+2+3
               <<0, 2, 0, 2, 0>>,               \* 1*2*3
               <<0, 1, 0, 2, 0>>,               \* 1+2*3
               <<0, 2, 0, 1, 0>>,               \* 1*2+3
               <<3, 0, 1, 0, 4, 2, 0>> }        \* (1+2)*3

ImprovedCases ==
    { [rules |-> ImprovedRules, axioms |-> {0}, nb_non_terminals |-> 1,
       terminals |-> NumbersTerminals, source |-> src] :
        src \in ImprovedSources }

\* E ::= atom | E op E with either associativity: E = 0; atom = a, op = b
AssocRules(left_associative) ==
    << Rule(0, <<Keyed(T(0), AttributeIndexed(0), "value")>>, FALSE),
       Rule(0, <<Keyed(N(0), AttributeNone, "left"), T(1),
                 Keyed(N(0), AttributeNone, "right")>>, left_associative) >>

AssocCases ==
    { [rules |-> AssocRules(flag), axioms |-> {0}, nb_non_terminals |-> 1,
       terminals |-> PoolTerminals, source |-> src] :
        flag \in BOOLEAN,
        src \in SeqsUpTo({0, 1}, MaxInputLen) \cup {<<0, 1, 0, 1, 0>>} }

\* the grammar of the proxy tests, with OP = PM, and two rules whose proxy
\* reads an element (body: inner) or shares a key with one (variant)
ProxyRules ==
    << \* NUMBER.0@value <Literal>
       WithProxy(Rule(0, <<Keyed(T(0), AttributeIndexed(0), "value")>>,
                      FALSE),
                 <<Variant("Literal")>>),
       \* Expression@left OP Expression@right <Operation>
       WithProxy(Rule(0, <<Keyed(N(0), AttributeNone, "left"), T(1),
                           Keyed(N(0), AttributeNone, "right")>>, FALSE),
                 <<Variant("Operation")>>),
       \* OP Expression@right
       \*     <Operation left: Expression {Literal value: "0"}>
       WithProxy(Rule(0, <<T(1), Keyed(N(0), AttributeNone, "right")>>,
                      FALSE),
                 <<Variant("Operation"),
                   ProxyEntry("left",
                       ProxyNode(0, <<Variant("Literal"),
                                      ProxyEntry("value",
                                                 ProxyLiteral("0"))>>))>>),
       \* LPAR Expression@value RPAR <Parenthesized>
       WithProxy(Rule(0, <<T(3), Keyed(N(0), AttributeNone, "value"), T(4)>>,
                      FALSE),
                 <<Variant("Parenthesized")>>),
       \* TD Expression@inner <Starred body: inner>
       WithProxy(Rule(0, <<T(2), Keyed(N(0), AttributeNone, "inner")>>,
                      FALSE),
                 <<Variant("Starred"),
                   ProxyEntry("body", ProxyReference("inner"))>>),
       \* TD TD Expression.variant@variant <Twice>
       WithProxy(Rule(0, <<T(2), T(2),
                           Keyed(N(0), AttributeNamed("variant"),
                                 "variant")>>, FALSE),
                 <<Variant("Twice")>>) >>

ProxySources ==
    SeqsUpTo({0, 1, 2}, MaxInputLen)
        \cup { <<3, 0, 4>>,                     \* (1)
               <<1, 0, 1, 0>>,                  \* +1+2
               <<2, 3, 0, 1, 0, 4>> }           \* *(1+2)

ProxyCases ==
    { [rules |-> ProxyRules, axioms |-> {0}, nb_non_terminals |-> 1,
       terminals |-> NumbersTerminals, source |-> src] :
        src \in ProxySources }

\* a grammar whose rules form a cycle of unit rules: A = 0, B = 1, a = 0
CycleRules ==
    << Rule(0, <<T(0)>>, FALSE),                \* A ::= a
       Rule(0, <<N(1)>>, FALSE),                \* A ::= B
       Rule(1, <<N(0)>>, FALSE) >>              \* B ::= A

CycleCases ==
    { [rules |-> CycleRules, axioms |-> {0}, nb_non_terminals |-> 2,
       terminals |-> PoolTerminals, source |-> src] :
        src \in SeqsUpTo({0}, MaxInputLen) }

\* rules whose keys clash: Expression = 0, terminals as for NumbersRules
ClashRules ==
    << \* NUMBER.0@value <Literal>
       WithProxy(Rule(0, <<Keyed(T(0), AttributeIndexed(0), "value")>>,
                      FALSE),
                 <<Variant("Literal")>>),
       \* Expression@variant PM Expression@variant <Pair>
       WithProxy(Rule(0, <<Keyed(N(0), AttributeNone, "variant"), T(1),
                           Keyed(N(0), AttributeNone, "variant")>>, FALSE),
                 <<Variant("Pair")>>),
       \* TD Expression@variant <Starred>
       WithProxy(Rule(0, <<T(2), Keyed(N(0), AttributeNone, "variant")>>,
                      FALSE),
                 <<Variant("Starred")>>),
       \* LPAR Expression.value@value RPAR <Through value: "0">
       WithProxy(Rule(0, <<T(3), Keyed(N(0), AttributeNamed("value"),
                                       "value"), T(4)>>, FALSE),
                 <<Variant("Through"),
                   ProxyEntry("value", ProxyLiteral("0"))>>) >>

ClashCases ==
    { [rules |-> ClashRules, axioms |-> {0}, nb_non_terminals |-> 1,
       terminals |-> NumbersTerminals, source |-> src] :
        src \in SeqsUpTo({0, 1, 2}, MaxInputLen) \cup {<<3, 0, 4>>} }

Cases ==
    PoolCases \cup UnwantedCases \cup NumbersCases \cup ChainCases
        \cup ImprovedCases \cup AssocCases \cup ProxyCases \cup CycleCases
        \cup ClashCases

-----------------------------------------------------------------------------
(* The specification *)

Init ==
    \E c \in Cases :
        /\ grammar = EarleyGrammarNew(c.rules, c.axioms, c.nb_non_terminals)
        /\ typed_ast = c.terminals
        /\ lexer = build_from_ast(c.terminals).grammar
        /\ source = c.source
    /\ offset = 0
    /\ last_location = 0
    /\ sets = <<FirstStateFrom(0, StateSetDefault)>>
    /\ raw_input = <<>>
    /\ pos = 0
    /\ scans = <<>>
    /\ allowed = {}
    /\ forest = <<>>
    /\ tree = <<>>
    /\ result = NoResult
    /\ pc = "recognise"

Next ==
    \/ Predict
    \/ Scan
    \/ Complete
    \/ Shift
    \/ EndOfInput
    \/ LexError
    \/ ToForest
    \/ SelectAst

Spec == Init /\ [][Next]_vars

\* the steps of the loop of recognise
RecogniseStep ==
    \/ Predict
    \/ Scan
    \/ Complete
    \/ Shift
    \/ EndOfInput
    \/ LexError

\* recognise is a loop of a single caller: a step that can be taken is taken
FairSpec == Spec /\ WF_vars(RecogniseStep)

\* the terminal declarations a lexer grammar is built from
TerminalDeclarations ==
    { Terminal(n, ignore, unwanted, comment) :
        n \in {"A", "B"}, ignore \in BOOLEAN, unwanted \in BOOLEAN,
        comment \in {<<>>, <<"message">>, <<"unclosed comment">>} }

\* building a LexerGrammar: before build_from_ast ran
BuildInit ==
    /\ typed_ast \in SeqsUpTo(TerminalDeclarations, MaxTerminals)
    /\ grammar = <<>>
    /\ lexer = <<>>
    /\ source = <<>>
    /\ offset = 0
    /\ last_location = 0
    /\ sets = <<>>
    /\ raw_input = <<>>
    /\ pos = 0
    /\ scans = <<>>
    /\ allowed = {}
    /\ forest = <<>>
    /\ tree = <<>>
    /\ result = NoResult
    /\ pc = "build_from_ast"

BuildNext == BuildFromAst

BuildSpec == BuildInit /\ [][BuildNext]_vars

\* the grammar the charts given to to_forest are over: A ::= a, A ::= A a
ChartRules ==
    << Rule(0, <<T(0)>>, FALSE),
       Rule(0, <<N(0), T(0)>>, FALSE) >>

\* the items a set at position k may hold, the dot past the first element
ChartItems(k) ==
    { EarleyItem(r, o, p) : r \in 0..1, o \in 0..k,
                            p \in 1..2 } \ {EarleyItem(0, o, 2) : o \in 0..k}

\* a set of the chart at position k: empty, or one item that was processed
ChartSets(k) ==
    {StateSetDefault}
        \cup { StateSetAdvance(StateSetAdd(StateSetDefault, item)) :
                 item \in ChartItems(k) }

RECURSIVE Charts(_)
\* the charts S[0..m]
Charts(m) ==
    IF m = 0 THEN { <<s>> : s \in ChartSets(0) }
    ELSE { Append(c, s) : c \in Charts(m - 1), s \in ChartSets(m) }

\* to_forest on its own: a chart and the tokens it was built from, the
\* tokens found after shift ignored lexemes
ForestInit ==
    /\ \E m \in 0..MaxInputLen, shift \in 0..1 :
          /\ sets \in Charts(m)
          /\ raw_input = [p \in 1..m |->
                             Token([id |-> 0, location |-> p - 1 + shift])]
          /\ source = [p \in 1..(m + shift) |-> IF p <= shift THEN 2 ELSE 0]
          /\ offset = m + shift
          /\ last_location = IF m = 0 THEN 0 ELSE m - 1 + shift
          /\ pos = m
    /\ grammar = EarleyGrammarNew(ChartRules, {0}, 1)
    /\ typed_ast = PoolTerminals
    /\ lexer = build_from_ast(PoolTerminals).grammar
    /\ scans = <<>>
    /\ allowed = {}
    /\ forest = <<>>
    /\ tree = <<>>
    /\ result = OkResult
    /\ pc = "to_forest"

ForestNext == ToForest

ForestSpec == ForestInit /\ [][ForestNext]_vars

-----------------------------------------------------------------------------
(* Reference definitions the properties are stated against *)

\* recognise has returned, with Ok or with Err
RecogniseReturned == pc # "recognise"
RecogniseOk == pc \notin {"recognise", "recognise_err"}
RecogniseErr == pc = "recognise_err"

\* the token ids the stream delivers when nothing is disallowed
Delivered == SelectSeq(source, LAMBDA t : t \notin lexer.ignores)

\* no lexeme of the source is an unwanted terminal
LexClean == \A i \in 1..Len(source) : source[i] \notin DOMAIN lexer.errors

NonTerminals == 0..(grammar.nb_non_terminals - 1)

RECURSIVE MatchFrom(_, _, _, _, _, _)
\* elements[idx..] derive w[i+1..j], given the derivations D known so far
MatchFrom(elements, idx, i, j, w, D) ==
    IF idx > Len(elements) THEN i = j
    ELSE IF elements[idx].element_type = "Terminal"
         THEN /\ i < j
              /\ w[i + 1] = elements[idx].id
              /\ MatchFrom(elements, idx + 1, i + 1, j, w, D)
         ELSE \E k \in i..j :
                 /\ <<elements[idx].id, i, k>> \in D
                 /\ MatchFrom(elements, idx + 1, k, j, w, D)

\* one round of derivations: <<A, i, j>> when some rule of A matches w[i+1..j]
DeriveStep(D, w) ==
    D \cup { d \in { <<A, i, j>> : A \in NonTerminals,
                                    i \in 0..Len(w), j \in 0..Len(w) } :
               /\ d[2] <= d[3]
               /\ \E r \in 1..Len(grammar.rules) :
                     /\ grammar.rules[r].id = d[1]
                     /\ MatchFrom(grammar.rules[r].elements, 1, d[2], d[3], w, D) }

RECURSIVE DeriveFix(_, _)
DeriveFix(D, w) ==
    LET D2 == DeriveStep(D, w)
    IN  IF D2 = D THEN D ELSE DeriveFix(D2, w)

\* the non-terminal A derives exactly w
Derives(A, w) == <<A, 0, Len(w)>> \in DeriveFix({}, w)

\* one round of the nullability rule
NullableStep(S) ==
    S \cup { A \in NonTerminals :
               \E r \in 1..Len(grammar.rules) :
                  /\ grammar.rules[r].id = A
                  /\ \A j \in 1..Len(grammar.rules[r].elements) :
                        /\ grammar.rules[r].elements[j].element_type = "NonTerminal"
                        /\ grammar.rules[r].elements[j].id \in S }

RECURSIVE NullableFix(_)
NullableFix(S) ==
    LET S2 == NullableStep(S)
    IN  IF S2 = S THEN S ELSE NullableFix(S2)

\* the least set closed under the nullability rule
LeastNullables == NullableFix({})

\* the items of S[k]
ItemsOf(k) == Range(SetAt(k).set)

-----------------------------------------------------------------------------
(* Properties *)

\* C1 - Axiom acceptance: whenever recognise returns Ok, the chart has
\* |raw_input| + 1 sets and the last one holds an item of an axiom rule with
\* origin 0 and the dot at the end of the rule.
AxiomAcceptance ==
    RecogniseOk =>
        /\ Len(sets) = Len(raw_input) + 1
        /\ \E item \in ItemsOf(Len(raw_input)) :
              /\ item.origin = 0
              /\ item.position = Len(RuleAt(item.rule).elements)
              /\ RuleAt(item.rule).id \in grammar.axioms

\* recognise returned Ok on a non-empty input
AxiomAcceptanceWitness ==
    /\ RecogniseOk
    /\ Len(raw_input) >= 2
    /\ \E item \in ItemsOf(Len(raw_input)) :
          item.origin > 0 /\ IsCompleted(item)

\* C2 - Recogniser correctness: on a source without unwanted lexemes,
\* recognise returns Ok exactly when some axiom derives the delivered token
\* sequence under the rules of the grammar.
RecogniserCorrect ==
    (RecogniseReturned /\ LexClean) =>
        (RecogniseOk <=> \E A \in grammar.axioms : Derives(A, Delivered))

\* a non-empty accepted input whose derivation passes through a nullable
\* non-terminal
RecogniserCorrectWitness ==
    /\ RecogniseOk
    /\ Len(raw_input) >= 2
    /\ grammar.nullables # {}
    /\ \E A \in grammar.axioms : Derives(A, Delivered)

\* C3 - Dedup: no state set ever holds the same item twice, and adding an
\* item that is already present leaves the set unchanged.
Dedup ==
    \A k \in 1..Len(sets) :
        /\ \A i, j \in 1..Len(sets[k].set) :
              sets[k].set[i] = sets[k].set[j] => i = j
        /\ \A i \in 1..Len(sets[k].set) :
              StateSetAdd(sets[k], sets[k].set[i]) = sets[k]

\* a set that was offered an item it already held: a cyclic grammar whose
\* set is complete
DedupWitness ==
    /\ RecogniseReturned
    /\ \E k \in 1..Len(sets) :
          \E item \in Range(sets[k].set) :
             /\ HasElement(item)
             /\ ElementAt(item).element_type = "NonTerminal"
             /\ RuleAt(item.rule).id = ElementAt(item).id
             /\ item.position = 0

\* C4 - Nullability closure: the nullables computed by EarleyGrammar::new
\* are the least set closed under "some rule of A has only nullable
\* non-terminals as elements", and are the non-terminals deriving the empty
\* string.
NullabilityClosure ==
    /\ grammar.nullables = LeastNullables
    /\ \A A \in NonTerminals :
          A \in grammar.nullables <=> Derives(A, <<>>)

\* a non-terminal that is nullable only through other nullable
\* non-terminals, next to one that is not nullable
NullabilityClosureWitness ==
    /\ \E A \in grammar.nullables :
          \A r \in 1..Len(grammar.rules) :
             grammar.rules[r].id = A => grammar.rules[r].elements # <<>>
    /\ \E A \in NonTerminals :
          /\ A \notin grammar.nullables
          /\ \E r \in 1..Len(grammar.rules) :
                /\ grammar.rules[r].id = A
                /\ \E j \in 1..Len(grammar.rules[r].elements) :
                      /\ grammar.rules[r].elements[j].element_type = "NonTerminal"
                      /\ grammar.rules[r].elements[j].id \in grammar.nullables

\* C5 - Forest consistency: after to_forest on the chart of a successful
\* recognise, every completed item of S[j] with origin i has a FinalItem
\* with the same rule and end j in forest[i].
ForestConsistency ==
    pc = "select_ast" =>
        \A j \in 0..(Len(sets) - 1) :
            \A item \in ItemsOf(j) :
                IsCompleted(item) =>
                    FinalItem(item.rule, j) \in Range(forest[item.origin + 1].set)

\* a forest with a completed item that starts after position 0 and spans
\* at least one token
ForestConsistencyWitness ==
    /\ pc = "select_ast"
    /\ \E j \in 0..(Len(sets) - 1) :
          \E item \in ItemsOf(j) :
             IsCompleted(item) /\ item.origin > 0 /\ item.origin < j

\* C6 - Termination of recognition: recognise eventually returns, also for
\* nullable and mutually recursive non-terminals.
RecogniseTerminates == <>(pc # "recognise")

\* recognise returned for a grammar with A ::= B, B ::= A and a nullable A
RecogniseTerminatesWitness ==
    /\ RecogniseReturned
    /\ 0 \in grammar.nullables
    /\ \E r1, r2 \in 1..Len(grammar.rules) :
          /\ grammar.rules[r1] = Rule(0, <<N(1)>>, FALSE)
          /\ grammar.rules[r2] = Rule(1, <<N(0)>>, FALSE)
    /\ \E k \in 1..Len(sets) : Len(sets[k].set) >= 5

\* the grammar @A ::= | B ; B ::= A ; on the empty input
NullableScenario ==
    /\ grammar.rules = <<Rule(0, <<>>, FALSE), Rule(0, <<N(1)>>, FALSE),
                         Rule(1, <<N(0)>>, FALSE)>>
    /\ grammar.axioms = {0}
    /\ source = <<>>

\* C7 - Nullable scenario: for @A ::= | B ; B ::= A ; on the empty input,
\* recognise accepts with a chart of one set holding, in this order,
\* A -> . (0), A -> . B (0), B -> . A (0), A -> B . (0), B -> A . (0).
NullableChart ==
    (NullableScenario /\ RecogniseReturned) =>
        /\ RecogniseOk
        /\ Len(sets) = 1
        /\ sets[1].set = << EarleyItem(0, 0, 0), EarleyItem(1, 0, 0),
                            EarleyItem(2, 0, 0), EarleyItem(1, 0, 1),
                            EarleyItem(2, 0, 1) >>

NullableChartWitness == NullableScenario /\ RecogniseReturned

\* S[k] holds a completed item of an axiom rule with origin 0
HasCompletedAxiom(k) ==
    \E item \in ItemsOf(k) :
        /\ item.origin = 0
        /\ item.position = Len(RuleAt(item.rule).elements)
        /\ RuleAt(item.rule).id \in grammar.axioms

\* the arithmetic grammar of the tests on the input 1+2+
PrefixScenario ==
    /\ grammar.rules = NumbersRules
    /\ source = <<0, 1, 0, 1>>

\* C8 - Premature EOF: when the stream reports the end of the input at step
\* k and S[k] holds no completed axiom item with origin 0, recognise fails
\* with the SyntaxError "Reached EOF but parsing isn't done." located at the
\* stream's last_location; 1+2+ under the arithmetic grammar is rejected so.
PrematureEOF ==
    /\ [][ ( /\ pc = "recognise"
             /\ ~StateSetHasNext(SetAt(pos))
             /\ LexNext(offset, AllowedSome(allowed')).kind = "None"
             /\ ~HasCompletedAxiom(pos) )
           => ( /\ pc' = "recognise_err"
                /\ result'.kind = "SyntaxError"
                /\ result'.message = EOF_MESSAGE
                /\ result'.location = last_location' ) ]_vars
    /\ [](PrefixScenario /\ RecogniseReturned =>
             /\ RecogniseErr
             /\ result.kind = "SyntaxError"
             /\ result.message = EOF_MESSAGE
             /\ Len(raw_input) = 4)

\* 1+2+ was read to its end and rejected
PrematureEOFWitness ==
    /\ PrefixScenario
    /\ RecogniseErr
    /\ offset = Len(source)

\* no rule of the grammar has an axiom as its left-hand side
AxiomLess ==
    \A r \in 1..Len(grammar.rules) : grammar.rules[r].id \notin grammar.axioms

\* C9 - Axiom-less grammar: with no rule of an axiom, S[0] is empty and
\* recognise, hence parse, fails with SyntaxError on the empty input.
AxiomLessFails ==
    (AxiomLess /\ source = <<>>) =>
        /\ SetAt(0).set = <<>>
        /\ RecogniseReturned =>
              /\ RecogniseErr
              /\ result.kind = "SyntaxError"

\* an axiom-less grammar that has rules, and an axiom, rejected on the empty
\* input
AxiomLessFailsWitness ==
    /\ AxiomLess
    /\ source = <<>>
    /\ grammar.rules # <<>>
    /\ grammar.axioms # {}
    /\ RecogniseErr

\* the terminals that advance some item of S[k]
NextTerminals(k) ==
    { ElementAt(item).id :
        item \in { i \in ItemsOf(k) :
                     HasElement(i) /\ ElementAt(i).element_type = "Terminal" } }

\* C10 - Disallowed token: when the stream answers the restricted allowed
\* set with a lexical error and Allowed::All yields a token T at the same
\* place, recognise fails with a SyntaxError located at T that names T and
\* lists exactly the terminals that advance some item of S[k].
DisallowedToken ==
    [][ ( /\ pc = "recognise"
          /\ ~StateSetHasNext(SetAt(pos))
          /\ LexNext(offset, AllowedSome(allowed')).kind = "LexingError"
          /\ LexNext(offset, AllowedAll).kind = "Token" )
        => ( LET tok == LexNext(offset, AllowedAll)
             IN  /\ pc' = "recognise_err"
                 /\ result'.kind = "SyntaxError"
                 /\ result'.message = DISALLOWED_MESSAGE
                 /\ result'.location = tok.location
                 /\ result'.token = lexer.names[tok.id + 1]
                 /\ result'.alternatives =
                        { lexer.names[t + 1] : t \in NextTerminals(pos) } ) ]_vars

\* a token was refused after at least one was consumed, with two terminals
\* on offer
DisallowedTokenWitness ==
    /\ RecogniseErr
    /\ result.message = DISALLOWED_MESSAGE
    /\ Len(raw_input) >= 1
    /\ Cardinality(result.alternatives) >= 2

\* parse returned a tree
Parsed == pc = "parsed"

\* select_ast panicked or recursed without end
SelectFailed == pc \in {"select_ast_panic", "select_ast_overflow"}

\* C11: on every input on which recognise succeeds, the empty input and
\* zero-width nullable derivations included, parse never panics and returns
\* one AST whose root node's non-terminal is an axiom.
ExactlyOneTree ==
    RecogniseOk =>
        /\ pc \in {"to_forest", "select_ast", "parsed"}
        /\ Parsed => /\ tree.kind = "Node"
                     /\ tree.nonterminal \in grammar.axioms

\* the rules of { item \in forest[0] : item.end = |raw_input| /\ LHS axiom }
RootRules ==
    { item.rule : item \in
        { i \in Range(forest[1].set) :
            /\ i.end = Len(raw_input)
            /\ RuleAt(i.rule).id \in grammar.axioms } }

LargestRootRule == CHOOSE r \in RootRules : \A q \in RootRules : r >= q
SmallestRootRule == CHOOSE r \in RootRules : \A q \in RootRules : r <= q

\* the tree that expanding the root candidate of this rule gives
TreeOfRoot(rule) ==
    build_ast(SyntaxicRule(rule, 0, Len(raw_input)), forest, raw_input, {}).ast

\* C12 as stated: the tree parse returns is the expansion of the root
\* candidate with the smallest RuleId.
RootSelectionSmallest ==
    Parsed => tree = TreeOfRoot(SmallestRootRule)

\* C12, amended: among the FinalItems of forest[0] that end at |raw_input|
\* and whose rule's left-hand side is an axiom, select_ast expands the one
\* with the largest RuleId, and the tree returned is that expansion.
RootSelection ==
    /\ (pc = "select_ast" /\ RootRules # {}) =>
           RootItem(forest, raw_input) =
               SyntaxicRule(LargestRootRule, 0, Len(raw_input))
    /\ Parsed => tree = TreeOfRoot(LargestRootRule)

\* a tree was returned where several root candidates gave different trees
RootSelectionWitness ==
    /\ Parsed
    /\ Cardinality(RootRules) >= 2
    /\ TreeOfRoot(SmallestRootRule) # TreeOfRoot(LargestRootRule)
    /\ "variant" \in DOMAIN tree.attributes
    /\ tree.attributes["variant"].value = "AddSub"

\* the arguments find_children can be called with: one per final item
Expandable ==
    UNION { { SyntaxicRule(item.rule, i, item.end) :
                  item \in Range(forest[i + 1].set) } :
            i \in 0..(Len(forest) - 1) }

\* the valid boundary sequences of an expansion, each in rule order
ValidSequences(element) ==
    { Reverse(s) : s \in Range(CompleteSequences(element, forest, raw_input)) }

\* both children are non-terminal children and they differ
DifferAt(s, t, k) ==
    /\ s[k].kind = "Rule"
    /\ t[k].kind = "Rule"
    /\ s[k].start # t[k].start \/ s[k].rule # t[k].rule

\* child k of s is greater than child k of t: by start, then by RuleId
GreaterAt(s, t, k, left_associative) ==
    /\ DifferAt(s, t, k)
    /\ \/ IF left_associative THEN s[k].start > t[k].start
                              ELSE s[k].start < t[k].start
       \/ s[k].start = t[k].start /\ s[k].rule > t[k].rule

\* s is greater than t when the first differing pair, from the first child
\* of the rule on, decides for s
GreaterFirstToLast(s, t, left_associative) ==
    \E k \in 1..Len(s) :
        /\ GreaterAt(s, t, k, left_associative)
        /\ \A j \in 1..(k - 1) : ~DifferAt(s, t, j)

\* s is greater than t when the first differing pair, from the last child
\* of the rule back, decides for s
GreaterLastToFirst(s, t, left_associative) ==
    \E k \in 1..Len(s) :
        /\ GreaterAt(s, t, k, left_associative)
        /\ \A j \in (k + 1)..Len(s) : ~DifferAt(s, t, j)

\* the forest is built and the selector may run on it
ForestBuilt == pc \in {"select_ast", "parsed", "select_ast_panic",
                       "select_ast_overflow"}

\* C13 as stated: find_children returns a valid sequence that no other valid
\* sequence exceeds in the order comparing the children from the first child
\* of the rule to the last.
AmbiguityOrderFirstToLast ==
    ForestBuilt =>
        \A element \in Expandable :
            ValidSequences(element) # {} =>
                LET chosen == find_children(element, forest, raw_input).children
                IN  /\ chosen \in ValidSequences(element)
                    /\ \A t \in ValidSequences(element) :
                           ~GreaterFirstToLast(t, chosen,
                               RuleAt(element.rule).left_associative)

\* C13, amended: find_children returns the maximum of the valid sequences
\* under the order comparing the children pairwise from the last child of
\* the rule back to the first, skipping terminal children: the first pair of
\* non-terminal children that differs decides, by start position (direction
\* given by left_associative), then by RuleId, larger being greater.
AmbiguityOrder ==
    ForestBuilt =>
        \A element \in Expandable :
            ValidSequences(element) # {} =>
                LET chosen == find_children(element, forest, raw_input).children
                IN  /\ chosen \in ValidSequences(element)
                    /\ \A t \in ValidSequences(element) \ {chosen} :
                           GreaterLastToFirst(chosen, t,
                               RuleAt(element.rule).left_associative)

\* an expansion with several valid sequences on which the two orders differ
AmbiguityOrderWitness ==
    /\ Parsed
    /\ \E element \in Expandable :
           /\ Cardinality(ValidSequences(element)) >= 2
           /\ \E t \in ValidSequences(element) :
                  GreaterFirstToLast(t,
                      find_children(element, forest, raw_input).children,
                      RuleAt(element.rule).left_associative)

\* atom op atom op atom
AssocSource == <<0, 1, 0, 1, 0>>

\* the node of E ::= atom.0@value over the token at location p
Atom(p) ==
    ASTNode(0, [value |-> ASTLiteral(<<"lexeme", p>>, <<p>>)], <<p, p>>)

\* the node of E ::= E@left op E@right over two nodes
Binary(l, r) ==
    ASTNode(0, [left |-> l, right |-> r], <<l.span[1], r.span[2]>>)

\* the run of the associativity scenario with the given flag
AssocScenario(flag) ==
    /\ grammar.rules = AssocRules(flag)
    /\ source = AssocSource

\* C14: with E ::= atom and E ::= E op E, on atom op atom op atom parse
\* returns ((a op b) op c) when the binary rule is left_associative and
\* (a op (b op c)) when it is not.
AssociativityFlag ==
    /\ (AssocScenario(TRUE) /\ (Parsed \/ SelectFailed)) =>
           /\ Parsed
           /\ tree = Binary(Binary(Atom(0), Atom(2)), Atom(4))
    /\ (AssocScenario(FALSE) /\ (Parsed \/ SelectFailed)) =>
           /\ Parsed
           /\ tree = Binary(Atom(0), Binary(Atom(2), Atom(4)))

\* the scenario was parsed with the right-associative rule
AssociativityFlagWitness ==
    /\ AssocScenario(FALSE)
    /\ Parsed
    /\ tree.attributes["right"] = Binary(Atom(2), Atom(4))

\* the node of NUMBER.0@value <Literal> over the token at location p
Number(p) ==
    ASTNode(0, [variant |-> ASTLiteral("Literal", <<(<<p, p>>)>>),
                value   |-> ASTLiteral(<<"lexeme", p>>, <<p>>)],
            <<p, p>>)

\* the node of Expr@left op Expr@right <variant> over two nodes
Operation(variant, l, r) ==
    ASTNode(0, [variant |-> ASTLiteral(variant,
                                       <<(<<l.span[1], r.span[2]>>)>>),
                left    |-> l,
                right   |-> r],
            <<l.span[1], r.span[2]>>)

AddSub(l, r) == Operation("AddSub", l, r)
MulDiv(l, r) == Operation("MulDiv", l, r)

\* 1+(2+(((3*4)*5)+(6+(7*8)))), the numbers at locations 0, 2, .., 14
PriorityTree ==
    AddSub(Number(0),
           AddSub(Number(2),
                  AddSub(MulDiv(MulDiv(Number(4), Number(6)), Number(8)),
                         AddSub(Number(10),
                                MulDiv(Number(12), Number(14))))))

\* the run of the priority test
PriorityScenario ==
    /\ grammar.rules = ImprovedRules
    /\ grammar.axioms = {0}
    /\ source = PrioritySource

\* C15: with the rules Literal, left-assoc MulDiv (TD), right-assoc AddSub
\* (PM), Through declared in this order, parsing 1+2+3*4*5+6+7*8 yields the
\* tree shaped 1+(2+(((3*4)*5)+(6+(7*8)))).
PrecedenceScenario ==
    (PriorityScenario /\ (Parsed \/ SelectFailed)) =>
        /\ Parsed
        /\ tree = PriorityTree

\* the priority test was parsed: its fifteen tokens, an AddSub at the root
PrecedenceScenarioWitness ==
    /\ PriorityScenario
    /\ Parsed
    /\ Len(raw_input) = 15
    /\ tree.attributes["variant"].value = "AddSub"
    /\ tree.attributes["right"].attributes["right"].attributes["left"]
           = MulDiv(MulDiv(Number(4), Number(6)), Number(8))

\* the expansions build_ast completes
Built(element) == build_ast(element, forest, raw_input, {}).kind = "Ok"

\* the children of an expansion and their ASTs, in rule order
ChildrenOf(element) == find_children(element, forest, raw_input).children
ChildASTs(element) ==
    [k \in 1..Len(ChildrenOf(element)) |->
        build_ast(ChildrenOf(element)[k], forest, raw_input, {}).ast]

\* all_attributes as build_ast collects it for an expansion
AllAttributes(element) ==
    BuildChildren(ChildrenOf(element), 1, RuleAt(element.rule).elements,
                  <<>>, forest, raw_input, {element}).ast

\* the keys of the elements of a rule
ElementKeys(rule) ==
    { RuleAt(rule).elements[k].key[1] :
        k \in { j \in 1..Len(RuleAt(rule).elements) :
                  RuleAt(rule).elements[j].key # <<>> } }

\* what the element at index k stores under its key
PairedValue(element, k) ==
    LET attribute == RuleAt(element.rule).elements[k].attribute
        child == ChildASTs(element)[k]
    IN  CASE attribute.kind = "None" -> child
          [] attribute.kind = "Named" -> child.attributes[attribute.attr]
          [] attribute.kind = "Indexed" ->
                ASTLiteral(child.token.attributes[attribute.idx],
                           <<child.token.location>>)

\* the last element of the rule carrying the key
LastWithKey(rule, key) ==
    CHOOSE k \in 1..Len(RuleAt(rule).elements) :
        /\ RuleAt(rule).elements[k].key = <<key>>
        /\ \A j \in (k + 1)..Len(RuleAt(rule).elements) :
               RuleAt(rule).elements[j].key # <<key>>

\* 1+(2*3-4) under the arithmetic grammar of the tests
BuilderScenario ==
    /\ grammar.rules = NumbersRules
    /\ source = <<0, 1, 3, 0, 2, 0, 1, 0, 4>>

\* a node whose only attribute is self
SelfNode(nonterminal, self, span) ==
    ASTNode(nonterminal, [self |-> self], span)

\* a node with the attributes left and right
LeftRightNode(nonterminal, l, r) ==
    ASTNode(nonterminal, [left |-> l, right |-> r],
            <<l.span[1], r.span[2]>>)

\* Literal(Str(..)) of the number at location p
NumberLiteral(p) == ASTLiteral(<<"lexeme", p>>, <<p>>)

\* the tree tests::ast_builder expects, with the spans of the nodes
BuilderTree ==
    LET two_times_three ==
            LeftRightNode(1, SelfNode(1, NumberLiteral(3), <<3, 3>>),
                             SelfNode(2, NumberLiteral(5), <<5, 5>>))
        inner ==
            LeftRightNode(0, SelfNode(0, two_times_three, <<3, 5>>),
                             SelfNode(1, NumberLiteral(7), <<7, 7>>))
        one == SelfNode(0, SelfNode(1, NumberLiteral(0), <<0, 0>>), <<0, 0>>)
    IN  ASTNode(0, [left |-> one, right |-> SelfNode(1, inner, <<2, 8>>)],
                <<0, 8>>)

\* C16: build_ast pairs each child with the rule element at the same index;
\* an element without key contributes nothing; an element with key K stores
\* under K the child AST (Attribute::None), the child node's attribute n
\* (Attribute::Named(n)) or Literal(Str(token.attributes[i])) with the
\* token's location as span (Attribute::Indexed(i)); terminal children are
\* built as AST::Terminal(token).
AttributePairing ==
    /\ ForestBuilt =>
        \A element \in Expandable :
            Built(element) =>
                /\ Len(ChildrenOf(element)) = Len(RuleAt(element.rule).elements)
                /\ \A k \in 1..Len(ChildrenOf(element)) :
                       LET child == ChildrenOf(element)[k]
                       IN  child.kind = "Token" =>
                               /\ child.token = raw_input[child.start + 1]
                               /\ ChildASTs(element)[k] = ASTTerminal(child.token)
                /\ DOMAIN AllAttributes(element) = ElementKeys(element.rule)
                /\ \A key \in ElementKeys(element.rule) :
                       AllAttributes(element)[key] =
                           PairedValue(element, LastWithKey(element.rule, key))
    /\ (BuilderScenario /\ (Parsed \/ SelectFailed)) =>
           Parsed /\ tree = BuilderTree

\* a tree was built through a Named, an Indexed and a plain keyed element,
\* past a terminal child without key
AttributePairingWitness ==
    /\ BuilderScenario
    /\ Parsed
    /\ \E element \in Expandable :
           /\ Built(element)
           /\ element.rule = 3
           /\ AllAttributes(element) =
                  [self |-> tree.attributes["right"].attributes["self"]]
    /\ \E element \in Expandable :
           /\ Built(element)
           /\ element.rule = 5
           /\ AllAttributes(element) = [self |-> NumberLiteral(element.start)]
    /\ \E element \in Expandable :
           /\ Built(element)
           /\ element.rule = 4
           /\ ChildASTs(element)[1] = ASTTerminal(raw_input[3])

RECURSIVE References(_)
\* the element keys a proxy reads, nested node constructors included
References(proxy) ==
    UNION { CASE proxy[k].wanted.kind = "Reference" -> {proxy[k].wanted.key}
              [] proxy[k].wanted.kind = "Node" ->
                     References(proxy[k].wanted.proxy)
              [] OTHER -> {} :
            k \in 1..Len(proxy) }

\* the keys a proxy outputs
ProxyKeys(proxy) == { proxy[k].key : k \in 1..Len(proxy) }

\* the value a proxy gives its key: that of the last entry with the key
ProxyOutput(proxy, key, all_attributes, span) ==
    LET last == CHOOSE k \in 1..Len(proxy) :
                    /\ proxy[k].key = key
                    /\ \A j \in (k + 1)..Len(proxy) : proxy[j].key # key
    IN  Evaluate(proxy[last].wanted, all_attributes, {}, span).value

\* C17: the node built for a rule has the rule's left-hand side as its
\* non-terminal; its attribute map holds every proxy key with its evaluated
\* value, extended (as HashMap::extend does: an entry added replaces one
\* with the same key) with every keyed-element entry whose key the proxy did
\* not consume; a consumed key the proxy does not output is absent.
ResultAttributes ==
    ForestBuilt =>
        \A element \in Expandable :
            Built(element) =>
                LET node == build_ast(element, forest, raw_input, {}).ast
                    proxy == RuleAt(element.rule).proxy
                    all == AllAttributes(element)
                    kept == DOMAIN all \ References(proxy)
                IN  /\ node.kind = "Node"
                    /\ node.nonterminal = RuleAt(element.rule).id
                    /\ DOMAIN node.attributes = ProxyKeys(proxy) \cup kept
                    /\ \A key \in kept : node.attributes[key] = all[key]
                    /\ \A key \in ProxyKeys(proxy) \ kept :
                           node.attributes[key] =
                               ProxyOutput(proxy, key, all, node.span)
                    /\ \A key \in References(proxy) \ ProxyKeys(proxy) :
                           key \notin DOMAIN node.attributes

\* *1 was parsed by TD Expression@inner <Starred body: inner>: the node has
\* the proxy's keys, and inner, which the proxy read, is gone
ResultAttributesWitness ==
    /\ grammar.rules = ProxyRules
    /\ source = <<2, 0>>
    /\ Parsed
    /\ DOMAIN tree.attributes = {"variant", "body"}
    /\ tree.attributes["variant"].value = "Starred"
    /\ tree.attributes["body"].kind = "Node"
    /\ tree.attributes["body"].attributes["variant"].value = "Literal"

\* build_from_ast returned or panicked
BuildReturned == pc \in {"built", "build_panic"}

\* two declarations share a name
DuplicateNames ==
    \E i \in 1..Len(typed_ast) :
        \E j \in (i + 1)..Len(typed_ast) :
            typed_ast[i].name = typed_ast[j].name

\* the unwanted declarations that have no error message
UnwantedNoMessage ==
    { i \in 1..Len(typed_ast) :
        typed_ast[i].unwanted /\ typed_ast[i].comment = <<>> }

\* C18: building a LexerGrammar from declarations in which two terminals
\* share a name returns the error GrammarDuplicateDefinition, as an error
\* value and not a panic, and produces no grammar.
DuplicateIsError ==
    (BuildReturned /\ DuplicateNames /\ UnwantedNoMessage = {}) =>
        /\ pc # "build_panic"
        /\ result.kind = "Err"
        /\ result.message = "GrammarDuplicateDefinition"
        /\ lexer = <<>>

\* C19: building a LexerGrammar from declarations with an unwanted terminal
\* that has no error message returns the error
\* LexerGrammarUnwantedNoDescription naming that terminal, as an error value
\* and not a panic, and produces no grammar.
UnwantedNoMessageIsError ==
    (BuildReturned /\ UnwantedNoMessage # {} /\ ~DuplicateNames) =>
        /\ pc # "build_panic"
        /\ result.kind = "Err"
        /\ result.message = "LexerGrammarUnwantedNoDescription"
        /\ \E i \in UnwantedNoMessage : result.token = typed_ast[i].name
        /\ lexer = <<>>

\* the ids of the terminals declared with the ignore flag
DeclaredIgnore ==
    { i - 1 : i \in { j \in 1..Len(typed_ast) : typed_ast[j].ignore } }

\* the ids of the terminals declared unwanted
DeclaredUnwanted ==
    { i - 1 : i \in { j \in 1..Len(typed_ast) : typed_ast[j].unwanted } }

TerminalIds == 0..(Len(typed_ast) - 1)

\* C20 as stated: default_allowed() yields exactly the ids of the terminals
\* declared ignore, and ignored(id) is true exactly for those.
DefaultAllowedIsIgnore ==
    pc = "built" =>
        /\ Range(default_allowed) = DeclaredIgnore
        /\ \A id \in TerminalIds : ignored(id) <=> id \in DeclaredIgnore

\* C20, amended: for every successfully built LexerGrammar,
\* default_allowed() yields, each once, exactly the ids of the terminals
\* declared ignore or unwanted, and ignored(id) is true exactly for those.
DefaultAllowed ==
    pc = "built" =>
        /\ Range(default_allowed) = DeclaredIgnore \cup DeclaredUnwanted
        /\ Len(default_allowed) =
               Cardinality(DeclaredIgnore \cup DeclaredUnwanted)
        /\ \A id \in TerminalIds :
               ignored(id) <=> id \in DeclaredIgnore \cup DeclaredUnwanted

\* a grammar was built from an ignore terminal, an unwanted terminal that
\* is not ignore, and the latter is default-allowed and ignored
DefaultAllowedWitness ==
    /\ pc = "built"
    /\ DeclaredIgnore # {}
    /\ \E id \in DeclaredUnwanted \ DeclaredIgnore :
           /\ id \in Range(default_allowed)
           /\ ignored(id)
           /\ err_message(id) = <<"message">>


\* the declaration the terminal id was given to
Declaration(id) == typed_ast[id + 1]

\* C21: for every successfully built LexerGrammar the terminal ids follow
\* the declaration order, err_message(id) is defined exactly for the
\* terminals declared unwanted and is the message declared for that
\* terminal: the Errors map has one entry per unwanted terminal and no other.
ErrorMessageMap ==
    pc = "built" =>
        /\ Len(lexer.names) = Len(typed_ast)
        /\ \A id \in TerminalIds :
               /\ name(id) = Declaration(id).name
               /\ lexer.name_map[Declaration(id).name] = id
               /\ err_message(id) = IF Declaration(id).unwanted
                                    THEN Declaration(id).comment
                                    ELSE <<>>
        /\ DOMAIN lexer.errors = DeclaredUnwanted
        /\ \A id \in DeclaredUnwanted : err_message(id) # <<>>

\* a grammar was built from a commented terminal that is not unwanted,
\* declared first, and an unwanted terminal with another message, as
\* grammar_report builds one
ErrorMessageMapWitness ==
    /\ pc = "built"
    /\ Len(typed_ast) = 2
    /\ ~Declaration(0).unwanted
    /\ Declaration(0).comment = <<"message">>
    /\ err_message(0) = <<>>
    /\ Declaration(1).unwanted
    /\ err_message(1) = <<"unclosed comment">>
    /\ Cardinality(DOMAIN lexer.errors) = 1


\* to_forest returned
ToForestReturned == pc \in {"select_ast", "to_forest_err"}

\* the positions of the chart whose set is empty
EmptySets == { i \in 0..(Len(sets) - 1) : Len(SetAt(i).set) = 0 }

\* the smallest element of a non-empty set of numbers
Min(S) == CHOOSE x \in S : \A y \in S : x <= y

\* C22: given a chart S[0..m] and raw_input, if some S[i] with i < m is
\* empty then to_forest returns SyntaxError with the message
\* "Syntax error at token i" for the smallest such i, located at
\* raw_input[i], and no forest; if no set is empty it returns Ok.
EmptyChartPosition ==
    ToForestReturned =>
        LET m == Len(raw_input)
            before == { i \in EmptySets : i < m }
        IN  /\ before # {} =>
                /\ pc = "to_forest_err"
                /\ result.kind = "SyntaxError"
                /\ result.message =
                       "Syntax error at token " \o ToString(Min(before))
                /\ result.location = raw_input[Min(before) + 1].location
                /\ forest = <<>>
            /\ EmptySets = {} =>
                /\ pc = "select_ast"
                /\ result = OkResult
                /\ Len(forest) = Len(sets)

\* to_forest failed on a chart whose S[1] is the first of two empty sets,
\* the token of that position lying further in the source
EmptyChartPositionWitness ==
    /\ pc = "to_forest_err"
    /\ Len(raw_input) = 3
    /\ EmptySets = {1, 2}
    /\ result.message = "Syntax error at token 1"
    /\ result.location = 2


\* recognise pushed the first set and handed out none of its items
BeforeFirstItem ==
    /\ pc = "recognise"
    /\ Len(sets) = 1
    /\ SetAt(0).position = 0

\* the rules whose left-hand side is an axiom, by increasing RuleId
AxiomRules ==
    SetToSeq({ r \in 0..(Len(grammar.rules) - 1) :
                 RuleAt(r).id \in grammar.axioms })

\* C24: before any item is processed, S[0] consists of exactly one item
\* (r, origin 0, position 0) for every rule r whose left-hand side is an
\* axiom, in increasing RuleId order, and of no other item.
InitialSet ==
    BeforeFirstItem =>
        /\ SetAt(0).set =
               [j \in 1..Len(AxiomRules) |-> EarleyItem(AxiomRules[j], 0, 0)]
        /\ SetAt(0).cache = Range(SetAt(0).set)
        /\ raw_input = <<>>
        /\ pos = 0

\* the first set holds two rules of an axiom and leaves out a rule, declared
\* between them, whose left-hand side is no axiom
InitialSetWitness ==
    /\ BeforeFirstItem
    /\ Len(SetAt(0).set) >= 2
    /\ \E r \in 0..(Len(grammar.rules) - 1) :
           /\ RuleAt(r).id \notin grammar.axioms
           /\ \E j \in 1..Len(AxiomRules) : r < AxiomRules[j]
           /\ \E j \in 1..Len(AxiomRules) : r > AxiomRules[j]


\* the item waits for a non-terminal
BeforeNonTerminal(item) ==
    /\ item.position < Len(RuleAt(item.rule).elements)
    /\ RuleAt(item.rule).elements[item.position + 1].element_type
           = "NonTerminal"

\* the non-terminal the item waits for
NextNonTerminal(item) == RuleAt(item.rule).elements[item.position + 1].id

\* the rules whose left-hand side is the non-terminal A
RulesOf(A) == { r \in 0..(Len(grammar.rules) - 1) : RuleAt(r).id = A }

\* C25: in every set S[k] of a returned chart, for every item (rule, origin,
\* pos) whose next element is a non-terminal A, S[k] contains (r, k, 0) for
\* every rule r with left-hand side A and, if A is nullable, the epsilon-skip
\* item (rule, origin, pos + 1).
PredictionClosure ==
    RecogniseOk =>
        \A k \in 0..(Len(sets) - 1) :
            \A item \in ItemsOf(k) :
                BeforeNonTerminal(item) =>
                    /\ \A r \in RulesOf(NextNonTerminal(item)) :
                           [rule |-> r, origin |-> k, position |-> 0]
                               \in ItemsOf(k)
                    /\ NextNonTerminal(item) \in LeastNullables =>
                           [rule |-> item.rule, origin |-> item.origin,
                            position |-> item.position + 1] \in ItemsOf(k)

\* a chart was returned in which a set after the first predicts a nullable
\* non-terminal with several rules for an item that started earlier
PredictionClosureWitness ==
    /\ RecogniseOk
    /\ \E k \in 1..(Len(sets) - 1) :
           \E item \in ItemsOf(k) :
               /\ BeforeNonTerminal(item)
               /\ item.origin < k
               /\ NextNonTerminal(item) \in LeastNullables
               /\ Cardinality(RulesOf(NextNonTerminal(item))) >= 2
               /\ [rule |-> item.rule, origin |-> item.origin,
                   position |-> item.position + 1] \in ItemsOf(k)


\* the dot of the item is at the end of its rule
AtEnd(item) == item.position = Len(RuleAt(item.rule).elements)

\* the item with the dot one element further
Moved(item) ==
    [rule |-> item.rule, origin |-> item.origin,
     position |-> item.position + 1]

\* C26: in every returned chart, for every completed item (rule, origin o)
\* of S[k] and every item of S[o] whose next element is the non-terminal
\* rule.LHS, S[k] contains that item with the dot moved over it; also when
\* o = k, where the parent may have entered S[k] after the completed item
\* was processed.
CompletionClosure ==
    RecogniseOk =>
        \A k \in 0..(Len(sets) - 1) :
            \A item \in ItemsOf(k) :
                AtEnd(item) =>
                    \A parent \in ItemsOf(item.origin) :
                        (/\ BeforeNonTerminal(parent)
                         /\ NextNonTerminal(parent) = RuleAt(item.rule).id)
                            => Moved(parent) \in ItemsOf(k)

\* a chart was returned whose S[0] starts with a completed item, processed
\* when S[0] held the axiom rules only, and holds further on a parent waiting
\* for its non-terminal, together with the moved parent
CompletionClosureWitness ==
    /\ RecogniseOk
    /\ AtEnd(SetAt(0).set[1])
    /\ \E j \in (Len(AxiomRules) + 1)..Len(SetAt(0).set) :
           LET parent == SetAt(0).set[j]
           IN  /\ BeforeNonTerminal(parent)
               /\ NextNonTerminal(parent) = RuleAt(SetAt(0).set[1].rule).id
               /\ Moved(parent) \in ItemsOf(0)
    /\ \E k \in 1..(Len(sets) - 1) :
           \E item \in ItemsOf(k) : AtEnd(item) /\ item.origin < k


\* the item waits for the terminal t
BeforeTerminal(item, t) ==
    /\ item.position < Len(RuleAt(item.rule).elements)
    /\ RuleAt(item.rule).elements[item.position + 1].element_type = "Terminal"
    /\ RuleAt(item.rule).elements[item.position + 1].id = t

\* the items of the last set that wait for the terminal t, in set order
WaitingFor(t) ==
    SelectSeq(Last(sets).set, LAMBDA item : BeforeTerminal(item, t))

\* C27: when the lexer returns a token with terminal id t at step k, the
\* new set S[k+1] is seeded with exactly the items (rule, origin, pos + 1)
\* for the items (rule, origin, pos) of S[k] whose next element is the
\* terminal t, in the order those items were processed, the token is
\* appended to raw_input, and scanning an item adds nothing to S[k].
ScanStep ==
    [][ /\ Len(sets') = Len(sets) + 1 =>
            LET t == Last(raw_input').id
                waiting == WaitingFor(t)
            IN  /\ raw_input' = Append(raw_input, Last(raw_input'))
                /\ Last(sets').set =
                       [j \in 1..Len(waiting) |-> Moved(waiting[j])]
                /\ Last(sets').position = 0
                /\ SubSeq(sets', 1, Len(sets)) = sets
                /\ pos' = pos + 1
        /\ (/\ pc = "recognise"
            /\ Len(sets') = Len(sets)
            /\ Last(sets).position < Len(Last(sets).set)
            /\ \E t \in 0..(Len(lexer.names) - 1) :
                   BeforeTerminal(Last(sets).set[Last(sets).position + 1], t))
           => /\ Last(sets').set = Last(sets).set
              /\ Last(sets').position = Last(sets).position + 1
              /\ raw_input' = raw_input
      ]_vars

\* a set was just seeded with two items from a token, while the set before
\* it also holds an item waiting for another terminal
ScanStepWitness ==
    /\ pc = "recognise"
    /\ Len(sets) >= 2
    /\ Last(sets).position = 0
    /\ Len(Last(sets).set) >= 2
    /\ Len(raw_input) = Len(sets) - 1
    /\ \E item \in ItemsOf(Len(sets) - 2) :
           \E t \in 0..(Len(lexer.names) - 1) :
               t # Last(raw_input).id /\ BeforeTerminal(item, t)


\* the terminals some item of the sequence of items waits for
TerminalsAfterDot(items) ==
    { t \in 0..(Len(lexer.names) - 1) :
        \E j \in 1..Len(items) : BeforeTerminal(items[j], t) }

\* C28: at every step k the lexer is asked for the next token only after
\* S[k] has been processed to its fixed point, and the allowed set passed is
\* exactly default_allowed united with the terminals that some item of S[k]
\* has as its next element; the scans map is rebuilt from empty at each step.
AllowedHandshake ==
    [][ pc = "recognise" =>
          /\ DOMAIN scans =
                 TerminalsAfterDot(SubSeq(Last(sets).set, 1,
                                          Last(sets).position))
          /\ IF Last(sets).position < Len(Last(sets).set)
             THEN /\ allowed' = allowed
                  /\ offset' = offset
                  /\ raw_input' = raw_input
                  /\ pc' = "recognise"
             ELSE /\ allowed' = { default_allowed[j] :
                                    j \in 1..Len(default_allowed) }
                                   \cup TerminalsAfterDot(Last(sets).set)
                  /\ pc' = "recognise" =>
                         /\ scans' = <<>>
                         /\ Len(sets') = Len(sets) + 1
                         /\ Last(sets').position = 0
      ]_vars

\* the lexer was asked at a step after the first with a terminal of the
\* current set allowed besides the default ones, the set before having
\* waited for a terminal that is no longer allowed
AllowedHandshakeWitness ==
    /\ Len(sets) >= 2
    /\ Last(sets).position = Len(Last(sets).set)
    /\ pc \in {"to_forest", "recognise_err"}
    /\ allowed = Range(default_allowed) \cup TerminalsAfterDot(Last(sets).set)
    /\ TerminalsAfterDot(Last(sets).set) # {}
    /\ Range(default_allowed) # {}
    /\ TerminalsAfterDot(SetAt(Len(sets) - 2).set) \ allowed # {}


\* C29: at every iteration of the outer loop of recognise the number of
\* state sets is |raw_input| + 1 (= pos + 1), and on success the returned
\* chart has exactly |raw_input| + 1 sets: one per consumed token plus the
\* initial one.
ChartLength ==
    /\ pc = "recognise" =>
           /\ Len(sets) = Len(raw_input) + 1
           /\ Len(sets) = pos + 1
    /\ RecogniseOk =>
           /\ Len(sets) = Len(raw_input) + 1
           /\ Len(raw_input) <= Len(source)
           /\ \A k \in 1..Len(raw_input) :
                  /\ raw_input[k].location < Len(source)
                  /\ raw_input[k].id = source[raw_input[k].location + 1]
                  /\ k > 1 => raw_input[k - 1].location < raw_input[k].location

\* a chart of three sets was returned for two tokens found in a source that
\* also holds ignored lexemes
ChartLengthWitness ==
    /\ RecogniseOk
    /\ Len(sets) = 3
    /\ Len(raw_input) = 2
    /\ Len(source) > Len(raw_input)
    /\ pos = 2


\* s is a prefix of t
IsPrefix(s, t) == Len(s) <= Len(t) /\ SubSeq(t, 1, Len(s)) = s

\* C30: the sets are filled in increasing position order: during step k
\* predict and complete add items only to S[k]; once S[k+1] has been pushed
\* the sets S[0..k], items and cursors, are never modified again; recognise
\* never modifies the grammar.
FilledInOrder ==
    [][ /\ Len(sets') \in {Len(sets), Len(sets) + 1}
        /\ \A i \in 1..(Len(sets) - 1) : sets'[i] = sets[i]
        /\ Len(sets') = Len(sets) + 1 => sets'[Len(sets)] = sets[Len(sets)]
        /\ Len(sets') = Len(sets) =>
               /\ IsPrefix(Last(sets).set, Last(sets').set)
               /\ Last(sets').position >= Last(sets).position
        /\ grammar' = grammar
        /\ lexer' = lexer
        /\ source' = source
      ]_vars

\* in the third set or later an item was predicted at that position, the
\* sets before it standing as they were left
FilledInOrderWitness ==
    /\ pc = "recognise"
    /\ Len(sets) >= 3
    /\ \E item \in ItemsOf(Len(sets) - 1) :
           item.origin = Len(sets) - 1 /\ item.position = 0
    /\ \E item \in ItemsOf(Len(sets) - 1) :
           item.origin < Len(sets) - 1 /\ AtEnd(item)
    /\ \A k \in 0..(Len(sets) - 2) :
           SetAt(k).position = Len(SetAt(k).set)

\* the lexer is queried in this step: recognise leaves the inner loop and
\* either pushes the next set or returns
LexerQueried ==
    pc = "recognise" /\ (pc' # "recognise" \/ Len(sets') # Len(sets))

\* C31: every item is handed out by StateSet::next exactly once and in
\* insertion order: a turn of the inner loop moves the cursor of the last
\* set over exactly one item, the item that stood at the cursor, no cursor
\* ever moves back or jumps, the items keep their place in their set, the
\* cursor of S[k] equals the number of items of S[k] when the lexer is
\* queried at step k, and in a returned chart every cursor stands at the end
\* of its set.
ExactlyOnce ==
    [][ /\ \A k \in 1..Len(sets) :
               /\ IsPrefix(sets[k].set, sets'[k].set)
               /\ sets'[k].position \in
                      {sets[k].position, sets[k].position + 1}
               /\ sets'[k].position <= Len(sets'[k].set)
               /\ sets'[k].position = sets[k].position + 1 =>
                      /\ k = Len(sets)
                      /\ sets[k].position < Len(sets[k].set)
        /\ (pc = "recognise" /\ ~LexerQueried) =>
               Last(sets').position = Last(sets).position + 1
        /\ scans' # scans /\ ~LexerQueried =>
               \E id \in DOMAIN scans' :
                   Last(scans'[id]) =
                       Advanced(Last(sets).set[Last(sets).position + 1])
        /\ LexerQueried =>
               /\ Last(sets).position = Len(Last(sets).set)
               /\ Len(sets') > Len(sets) => Last(sets').position = 0
        /\ pc' # "recognise" =>
               \A k \in 1..Len(sets') :
                   sets'[k].position = Len(sets'[k].set)
      ]_vars

\* a chart of three sets or more was returned, one of its sets holds three
\* items or more, one of them added by a completion, and every cursor
\* stands at the end of its set
ExactlyOnceWitness ==
    /\ RecogniseOk
    /\ Len(sets) >= 3
    /\ \E k \in 1..Len(sets) : Len(sets[k].set) >= 3
    /\ \E k \in 1..Len(sets) : \E item \in Range(sets[k].set) :
           item.origin < k - 1 /\ item.position > 1
    /\ \A k \in 1..Len(sets) : sets[k].position = Len(sets[k].set)

\* the grammar and the input 1+(2*3-4) of the test recogniser
RecogniserScenario ==
    /\ grammar.rules = NumbersRules
    /\ source = <<0, 1, 3, 0, 2, 0, 1, 0, 4>>

\* the sets the test recogniser expects, item by item: (rule, origin,
\* position) with Sum -> Sum PM Product = 0, Sum -> Product = 1,
\* Product -> Product TD Factor = 2, Product -> Factor = 3,
\* Factor -> LPAR Sum RPAR = 4, Factor -> NUMBER = 5
RecogniserChart ==
    << << <<0, 0, 0>>, <<1, 0, 0>>, <<2, 0, 0>>, <<3, 0, 0>>, <<4, 0, 0>>,
          <<5, 0, 0>> >>,
       << <<5, 0, 1>>, <<3, 0, 1>>, <<1, 0, 1>>, <<2, 0, 1>>, <<0, 0, 1>> >>,
       << <<0, 0, 2>>, <<2, 2, 0>>, <<3, 2, 0>>, <<4, 2, 0>>, <<5, 2, 0>> >>,
       << <<4, 2, 1>>, <<0, 3, 0>>, <<1, 3, 0>>, <<2, 3, 0>>, <<3, 3, 0>>,
          <<4, 3, 0>>, <<5, 3, 0>> >>,
       << <<5, 3, 1>>, <<3, 3, 1>>, <<1, 3, 1>>, <<2, 3, 1>>, <<4, 2, 2>>,
          <<0, 3, 1>> >>,
       << <<2, 3, 2>>, <<4, 5, 0>>, <<5, 5, 0>> >>,
       << <<5, 5, 1>>, <<2, 3, 3>>, <<1, 3, 1>>, <<2, 3, 1>>, <<4, 2, 2>>,
          <<0, 3, 1>> >>,
       << <<0, 3, 2>>, <<2, 7, 0>>, <<3, 7, 0>>, <<4, 7, 0>>, <<5, 7, 0>> >>,
       << <<5, 7, 1>>, <<3, 7, 1>>, <<0, 3, 3>>, <<2, 7, 1>>, <<4, 2, 2>>,
          <<0, 3, 1>> >>,
       << <<4, 2, 3>>, <<3, 2, 1>>, <<0, 0, 3>>, <<2, 2, 1>>, <<0, 0, 1>> >> >>

\* the items of a set as (rule, origin, position) triples, in their order
Triples(s) ==
    [j \in 1..Len(s.set) |->
        <<s.set[j].rule, s.set[j].origin, s.set[j].position>>]

\* the item entered S[k] through the scan of the token raw_input[k - 1]
ScanSeeded(item, k) ==
    /\ item.position > 0
    /\ RuleAt(item.rule).elements[item.position].element_type = "Terminal"
    /\ RuleAt(item.rule).elements[item.position].id = raw_input[k].id

\* the dot of the item stands behind a terminal
AfterTerminal(item) ==
    /\ item.position > 0
    /\ RuleAt(item.rule).elements[item.position].element_type = "Terminal"

\* which branches of the loop of recognise the state allows
EnabledSteps ==
    LET r == LexNext(offset, AllowedSome(possible_scans))
        more == StateSetHasNext(Last(sets))
    IN  { step \in {"predict", "scan", "complete", "shift", "eof", "error"} :
            \/ /\ step = "predict" /\ more /\ HasElement(CurrentItem)
               /\ ElementAt(CurrentItem).element_type = "NonTerminal"
            \/ /\ step = "scan" /\ more /\ HasElement(CurrentItem)
               /\ ElementAt(CurrentItem).element_type = "Terminal"
            \/ step = "complete" /\ more /\ ~HasElement(CurrentItem)
            \/ step = "shift" /\ ~more /\ r.kind = "Token"
            \/ step = "eof" /\ ~more /\ r.kind = "None"
            \/ step = "error" /\ ~more /\ r.kind = "LexingError" }

\* C32: the chart is determined by the grammar and the tokens: every state
\* of recognise allows exactly one branch of the loop, whose outcome depends
\* on nothing but the state; in every set after the first the items seeded
\* by the scan come first, ahead of every predicted or completed item; and
\* for the input 1+(2*3-4) the chart is, item by item and in order, the one
\* the test recogniser expects.
DeterministicChart ==
    /\ pc = "recognise" => Cardinality(EnabledSteps) = 1
    /\ \A k \in 1..(Len(sets) - 1) :
           \E n \in 1..Len(SetAt(k).set) :
               /\ \A j \in 1..n : ScanSeeded(SetAt(k).set[j], k)
               /\ \A j \in (n + 1)..Len(SetAt(k).set) :
                      ~AfterTerminal(SetAt(k).set[j])
    /\ RecogniserScenario =>
           /\ Len(sets) <= Len(RecogniserChart)
           /\ \A k \in 1..Len(sets) :
                  /\ IsPrefix(Triples(sets[k]), RecogniserChart[k])
                  /\ (k < Len(sets) \/ RecogniseReturned) =>
                         Triples(sets[k]) = RecogniserChart[k]
           /\ RecogniseReturned =>
                  RecogniseOk /\ Len(sets) = Len(RecogniserChart)

\* recognise returned the chart of 1+(2*3-4): ten sets, the last one led by
\* the item scanned over RPAR
DeterministicChartWitness ==
    /\ RecogniserScenario
    /\ RecogniseOk
    /\ Len(sets) = 10
    /\ ScanSeeded(SetAt(9).set[1], 9)
    /\ Len(SetAt(9).set) = 5

\* the FinalItems the design gives forest[i]: one per completed item of
\* some S[j] whose origin is i
CompletedFrom(i) ==
    UNION { { FinalItem(item.rule, j) :
                item \in { x \in ItemsOf(j) :
                             IsCompleted(x) /\ x.origin = i } } :
            j \in 0..(Len(sets) - 1) }

\* C33: on success to_forest returns a forest as long as the chart,
\* forest[i].position = i for every i, and forest[i] holds exactly the
\* FinalItems {rule, end = j} of the completed items of S[j] with origin i,
\* each of them once and no other, ordered by increasing end.
ForestExactness ==
    pc = "select_ast" =>
        /\ Len(forest) = Len(sets)
        /\ \A i \in 0..(Len(forest) - 1) :
               LET fs == forest[i + 1]
               IN  /\ fs.position = i
                   /\ Range(fs.set) = CompletedFrom(i)
                   /\ Len(fs.set) = Cardinality(CompletedFrom(i))
                   /\ \A a, b \in 1..Len(fs.set) :
                          a < b => fs.set[a].end <= fs.set[b].end

\* a forest of three sets or more where forest[0] holds items of two
\* different ends, a later set holds an item, and a set holds none
ForestExactnessWitness ==
    /\ pc = "select_ast"
    /\ Len(forest) >= 3
    /\ \E a, b \in 1..Len(forest[1].set) :
           forest[1].set[a].end < forest[1].set[b].end
    /\ \E i \in 2..Len(forest) : Len(forest[i].set) >= 1
    /\ \E i \in 1..Len(forest) : forest[i].set = <<>>

\* the child stands for the element of the rule at position p, within end
ChildMatches(child, elem, p, end) ==
    /\ child.start = p
    /\ IF elem.element_type = "Terminal"
       THEN /\ child.kind = "Token"
            /\ p < end
            /\ child.end = p + 1
            /\ raw_input[p + 1].id = elem.id
            /\ child.token = raw_input[p + 1]
       ELSE /\ child.kind = "Rule"
            /\ child.end <= end
            /\ FinalItem(child.rule, child.end) \in Range(forest[p + 1].set)
            /\ RuleAt(child.rule).id = elem.id

\* C34: the children find_children returns for (rule, start, end) are one
\* per element of the rule, in element order; the first starts at start,
\* the last ends at end, each ends where the next begins; a terminal child
\* at p has p < end and raw_input[p].id equal to the element's terminal; a
\* non-terminal child (r', p, e') is a FinalItem {r', e'} of forest[p] whose
\* rule has the element's non-terminal as left-hand side, with e' <= end.
BoundarySequence ==
    ForestBuilt =>
        \A element \in Expandable :
            LET found == find_children(element, forest, raw_input)
                children == found.children
                elements == RuleAt(element.rule).elements
            IN  found.kind = "Ok" =>
                    /\ Len(children) = Len(elements)
                    /\ children = <<>> => element.start = element.end
                    /\ children # <<>> =>
                           /\ children[1].start = element.start
                           /\ Last(children).end = element.end
                    /\ \A k \in 1..(Len(children) - 1) :
                           children[k].end = children[k + 1].start
                    /\ \A k \in 1..Len(children) :
                           ChildMatches(children[k], elements[k],
                                        children[k].start, element.end)

\* an expansion of three children, a non-terminal spanning several tokens,
\* then a token, then a non-terminal
BoundarySequenceWitness ==
    /\ ForestBuilt
    /\ \E element \in Expandable :
           LET found == find_children(element, forest, raw_input)
           IN  /\ found.kind = "Ok"
               /\ Len(found.children) = 3
               /\ found.children[1].kind = "Rule"
               /\ found.children[1].end > found.children[1].start + 1
               /\ found.children[2].kind = "Token"
               /\ found.children[3].kind = "Rule"
               /\ element.start > 0

\* the items one step below the items of S: the children find_children
\* chooses for them
ReachStep(S) ==
    S \cup UNION { Range(find_children(element, forest, raw_input).children) :
                     element \in { e \in S : e.kind = "Rule" } }

RECURSIVE ReachFix(_)
ReachFix(S) == IF ReachStep(S) = S THEN S ELSE ReachFix(ReachStep(S))

\* the items select_ast reaches from the root candidate through the chosen
\* children
Reached ==
    IF RootCandidates(forest, raw_input) = <<>> THEN {}
    ELSE ReachFix({RootItem(forest, raw_input)})

UNWRAP_MESSAGE == "unwrap on a None value"

\* C35: for a forest built from a successful recognise there is a root
\* candidate, and every (rule, start, end) reached from it through the
\* chosen children has at least one valid boundary sequence: neither the
\* unwrap on the maximum in find_children nor the unwrap on the root
\* candidate in select_ast fails.
ValidSequenceExists ==
    ForestBuilt =>
        /\ RootCandidates(forest, raw_input) # <<>>
        /\ \A element \in Reached :
               element.kind = "Rule" =>
                   /\ CompleteSequences(element, forest, raw_input) # <<>>
                   /\ find_children(element, forest, raw_input).kind = "Ok"
        /\ pc = "select_ast_panic" => result.message # UNWRAP_MESSAGE

\* select_ast went through five items or more, one of them an expansion
\* with several valid sequences, and returned a tree
ValidSequenceExistsWitness ==
    /\ pc = "parsed"
    /\ Cardinality(Reached) >= 5
    /\ \E element \in Reached :
           /\ element.kind = "Rule"
           /\ Len(CompleteSequences(element, forest, raw_input)) >= 2

\* the grammar A ::= a, A ::= B, B ::= A on the input a
CycleScenario ==
    /\ grammar.rules = CycleRules
    /\ source = <<0>>

\* C36 as stated: for every forest built from a successful recognise,
\* select_ast finishes after finitely many recursive expansions, cyclic
\* grammars included: build_ast never re-enters the item it is building.
SelectionTerminates ==
    /\ pc # "select_ast_overflow"
    /\ pc = "select_ast" =>
           select_ast(forest, raw_input).kind # "overflow"

\* C37: every token appended to raw_input has a terminal id that is a key
\* of scans at that step, so the set pushed for it is not empty; every set
\* of a chart returned by a successful recognise is non-empty and the chart
\* has one set more than raw_input has tokens; to_forest applied to that
\* chart and raw_input returns a forest: no SyntaxError, no read of
\* raw_input out of bounds.
NoEmptySet ==
    [][ /\ Len(raw_input') > Len(raw_input) =>
               /\ Last(raw_input').id \in DOMAIN scans
               /\ Len(sets') = Len(sets) + 1
               /\ Last(sets').set = scans[Last(raw_input').id]
               /\ Last(sets').set # <<>>
        /\ pc' \notin {"recognise", "recognise_err"} =>
               /\ Len(sets') = Len(raw_input') + 1
               /\ \A k \in 1..Len(sets') : ~StateSetIsEmpty(sets'[k])
        /\ pc = "to_forest" =>
               /\ to_forest(sets, raw_input).kind = "Ok"
               /\ pc' = "select_ast"
        /\ pc' # "to_forest_err"
      ]_vars

\* to_forest returned the forest of a chart of three sets or more, built
\* from a source in which an ignored lexeme was skipped
NoEmptySetWitness ==
    /\ pc = "select_ast"
    /\ Len(raw_input) >= 2
    /\ Len(source) > Len(raw_input)
    /\ Len(forest) = Len(raw_input) + 1
    /\ \A k \in 1..Len(sets) : sets[k].set # <<>>

\* the element keys of the rule that its proxy does not read
Unconsumed(rule) == ElementKeys(rule) \ References(RuleAt(rule).proxy)

\* C38: when the proxy of a rule outputs the key K and a keyed element of
\* the same rule has the key K, which the proxy did not consume, the
\* attribute K of the node is the AST derived from the element, not the
\* value of the proxy; when two elements of a rule carry the same key the
\* value of the later element is the one kept.
KeyClash ==
    ForestBuilt =>
        \A element \in Expandable :
            Built(element) =>
                LET node == build_ast(element, forest, raw_input, {}).ast
                IN  \A key \in Unconsumed(element.rule) :
                        /\ key \in DOMAIN node.attributes
                        /\ node.attributes[key] =
                               PairedValue(element,
                                           LastWithKey(element.rule, key))

\* the tree of 1+2 under Expression@variant PM Expression@variant <Pair>:
\* the proxy says variant = "Pair", both operands are keyed variant and not
\* consumed, and the attribute variant of the tree is the node of 2
KeyClashWitness ==
    /\ grammar.rules = ClashRules
    /\ source = <<0, 1, 0>>
    /\ Parsed
    /\ "variant" \in ProxyKeys(RuleAt(1).proxy) \cap Unconsumed(1)
    /\ LastWithKey(1, "variant") = 3
    /\ DOMAIN tree.attributes = {"variant"}
    /\ tree.attributes["variant"].kind = "Node"
    /\ tree.attributes["variant"].attributes["value"] = NumberLiteral(2)

\* the elements before the dot of the item are nullable non-terminals
OverNullables(item) ==
    \A j \in 1..item.position :
        /\ RuleAt(item.rule).elements[j].element_type = "NonTerminal"
        /\ RuleAt(item.rule).elements[j].id \in grammar.nullables

\* C39: in every reachable state of recognise every item (rule, origin,
\* position) of S[k] has rule < |rules|, origin <= k and
\* position <= |rule.elements|; an item with origin = k and position > 0
\* has its dot behind nullable non-terminals only.
ItemWellFormed ==
    \A k \in 0..(Len(sets) - 1) :
        \A j \in 1..Len(SetAt(k).set) :
            LET item == SetAt(k).set[j]
            IN  /\ item.rule \in 0..(Len(grammar.rules) - 1)
                /\ item.origin \in 0..k
                /\ item.position \in 0..Len(RuleAt(item.rule).elements)
                /\ (item.origin = k /\ item.position > 0) =>
                       OverNullables(item)

\* recognise is at work on a set S[k], k > 0, that holds an item of origin k
\* advanced over a nullable non-terminal, an item of an earlier origin
\* advanced over a token, and a completed item
ItemWellFormedWitness ==
    /\ pc = "recognise"
    /\ Len(sets) >= 2
    /\ LET k == Len(sets) - 1
       IN  /\ \E item \in ItemsOf(k) :
                  item.origin = k /\ item.position > 0
           /\ \E item \in ItemsOf(k) :
                  item.origin < k /\ ~OverNullables(item)
           /\ \E item \in ItemsOf(k) : IsCompleted(item)

\* the sequence lists the numbers of S, each once, in increasing order
ListsInOrder(s, S) ==
    /\ Range(s) = S
    /\ \A a, b \in 1..Len(s) : a < b => s[a] < s[b]

\* the positions of the items of a FinalSet whose rule has left-hand side A
PositionsOf(fs, A) ==
    { p \in 0..(Len(fs.set) - 1) : RuleAt(fs.set[p + 1].rule).id = A }

\* C40: in every FinalSet built by FinalSet::add, for every non-terminal A,
\* index[A] lists exactly the positions, in insertion order, of the items
\* whose rule has left-hand side A (no entry when there is none), and every
\* item is listed under exactly one non-terminal; rules_of[A] built by
\* EarleyGrammar::new lists exactly the RuleIds with left-hand side A, in
\* increasing order.
FinalSetIndex ==
    /\ DOMAIN grammar.rules_of = 0..(grammar.nb_non_terminals - 1)
    /\ \A A \in DOMAIN grammar.rules_of :
           ListsInOrder(grammar.rules_of[A],
                        { r \in 0..(Len(grammar.rules) - 1) :
                            RuleAt(r).id = A })
    /\ ForestBuilt =>
           \A i \in 1..Len(forest) :
               LET fs == forest[i]
               IN  /\ \A A \in DOMAIN fs.index :
                          /\ fs.index[A] # <<>>
                          /\ ListsInOrder(fs.index[A], PositionsOf(fs, A))
                   /\ \A A \in NonTerminals \ DOMAIN fs.index :
                          PositionsOf(fs, A) = {}
                   /\ \A p \in 0..(Len(fs.set) - 1) :
                          Cardinality({ A \in DOMAIN fs.index :
                                          p \in Range(fs.index[A]) }) = 1

\* a FinalSet indexing two non-terminals, the items of one of them lying on
\* both sides of an item of the other, in a grammar where a non-terminal
\* has two rules
FinalSetIndexWitness ==
    /\ ForestBuilt
    /\ \E A \in DOMAIN grammar.rules_of : Len(grammar.rules_of[A]) >= 2
    /\ \E i \in 1..Len(forest) :
           /\ Cardinality(DOMAIN forest[i].index) >= 2
           /\ \E A, B \in DOMAIN forest[i].index :
                  \E a, b \in 1..Len(forest[i].index[A]) :
                      \E c \in 1..Len(forest[i].index[B]) :
                          /\ forest[i].index[A][a] < forest[i].index[B][c]
                          /\ forest[i].index[B][c] < forest[i].index[A][b]

====
